---------------------------- MODULE Spec2Model ----------------------------
(***************************************************************************)
(* Model of the document-search indexing pipeline:                         *)
(*   - internal/chunker   Chunker.ChunkText / findWordBoundary             *)
(*   - internal/storage   Database (SQLite documents/chunks tables)        *)
(*   - internal/search    Service.Index / Delete / Search / List           *)
(*                                                                         *)
(* Two specifications share the module:                                    *)
(*   ChunkSpec  the chunker's loop, run on every bounded text and          *)
(*              configuration;                                             *)
(*   Spec       the orchestrator's requests running concurrently against   *)
(*              the store.                                                 *)
(***************************************************************************)
EXTENDS Integers, Sequences, FiniteSets, TLC

VARIABLES
    \* ---- chunker (one ChunkText call) ----
    runes,        \* []rune(text)
    chunkSize,    \* Chunker.chunkSize
    overlap,      \* Chunker.overlap
    position,     \* loop variable of ChunkText
    chunkIndex,   \* loop variable of ChunkText
    chunks,       \* the slice being appended to
    cpc,          \* "new" | "call" | "loop" | "done"
    chunkerArgs,  \* the arguments NewChunker was called with
    \* ---- store (SQLite database file) ----
    foreignKeys,  \* PRAGMA foreign_keys of the connections
    documents,    \* committed rows of table documents
    chunkRows,    \* committed rows of table chunks
    seqDoc,       \* AUTOINCREMENT counter of documents
    seqChunk,     \* AUTOINCREMENT counter of chunks
    writer,       \* request holding the database write lock, 0 if none
    written,      \* history: per committed document id, the chunks its call was given
    \* ---- orchestrator requests ----
    pc,           \* position of each index request
    req,          \* resolved request: source, source_type, content, reindex
    args,         \* storage chunks built for IndexDocument
    tx,           \* the transaction's uncommitted view of the tables
    documentID,   \* LastInsertId of the document insert
    next,         \* index of the next chunk to insert
    embedCalls,   \* calls the request made to the embedding client
    checkSeq,     \* seqDoc read by the request's DocumentExists query
    started,      \* number of requests started so far
    response,     \* the response the step just taken returned, if it returned one
    lastCommit,   \* history: the commit the step just taken made, if it made one
    \* ---- embeddings client (one Embed call) ----
    texts,          \* the argument of Embed
    embedPc,        \* "call" | "do" | "backoff" | "pause" | "done" | "panicked"
    batchStart,     \* loop variable i of Embed
    attempt,        \* loop variable of embedBatch
    bodyRead,       \* the request's body buffer has been read by a round trip
    allEmbeddings,  \* the vectors of the batches completed so far
    embedResult,    \* what Embed returned
    cancelled,      \* ctx.Done() is closed
    log,            \* history: the provider calls and the waits, in order
    \* ---- one search request ----
    searchPc,       \* "handle" | "call" | "done"
    searchArgs,     \* the SearchArgs handleSearch was called with
    searchReq,      \* the SearchRequest and the embedding of its query
    dbSearch,       \* the arguments of the call of Database.Search, if made
    searchResult,   \* what Service.Search returned
    \* ---- the arguments of an index request ----
    received,       \* history: the request the step just taken received and the
                    \* file read or fetch it made, where these are recorded
    \* ---- one embedding on its way into and out of a BLOB ----
    vector,         \* the []float32 given to serializeEmbedding
    blob,           \* the bytes serializeEmbedding returned
    decoded,        \* what deserializeEmbedding returned for the blob
    serialPc        \* "serialize" | "deserialize" | "done"

chunkVars == <<runes, chunkSize, overlap, position, chunkIndex, chunks, cpc, chunkerArgs>>
storeVars == <<foreignKeys, documents, chunkRows, seqDoc, seqChunk, writer, written>>
reqVars   == <<pc, req, args, tx, documentID, next, embedCalls,
               checkSeq, started, response, lastCommit>>
embedVars == <<texts, embedPc, batchStart, attempt, bodyRead, allEmbeddings,
               embedResult, cancelled, log>>
searchVars == <<searchPc, searchArgs, searchReq, dbSearch, searchResult>>
serialVars == <<vector, blob, decoded, serialPc>>
auxVars   == <<searchVars, received, serialVars>>
vars      == <<chunkVars, storeVars, reqVars, embedVars, auxVars>>

----------------------------------------------------------------------------
(* Bounds of the model                                                     *)

MaxTextLen == 6
MaxChunkSize == 3
MaxLongExtra == 3

MaxFewTexts == 2

(* Program constants                                                       *)

DefaultChunkSize == 1000
MaxScanBack == 100
MaxBatchSize == 100
EmbeddingDimension == 1536
MaxRetries == 3
BatchPauseMs == 100
SecondMs == 1000

(* Code points: one whitespace, one ASCII letter, one multi-byte letter.   *)
Rune == {" ", "a", "U"}

IsSpace(r) == r = " "

Max(a, b) == IF a > b THEN a ELSE b
Min(a, b) == IF a < b THEN a ELSE b

RECURSIVE SeqsUpTo(_, _)
SeqsUpTo(S, n) ==
    IF n = 0 THEN {<<>>}
    ELSE LET shorter == SeqsUpTo(S, n - 1)
         IN  shorter \cup {Append(s, x) : s \in {t \in shorter : Len(t) = n - 1}, x \in S}

Texts == SeqsUpTo(Rune, MaxTextLen)

(* Texts and chunk sizes longer than the backward scan of findWordBoundary: *)
(* one long word with a single whitespace near its start or inside it.      *)
LongSizes == {MaxScanBack + 1, MaxScanBack + 2}

LongText(n, w) == [i \in 1 .. n |-> IF i = w + 1 THEN " " ELSE "a"]

LongTexts ==
    {LongText(n, w) : n \in (MaxScanBack + 3) .. (MaxScanBack + 3 + MaxLongExtra),
                      w \in (0 .. MaxLongExtra) \cup {MaxScanBack \div 2}}

----------------------------------------------------------------------------
(* internal/chunker                                                        *)

\* NewChunker: the coerced chunkSize
NewChunkSize(cs) == IF cs <= 0 THEN DefaultChunkSize ELSE cs

\* NewChunker: the coerced overlap, given the coerced chunkSize
NewOverlapNoCap(cs, ov) == IF ov < 0 THEN 0 ELSE ov

NewOverlap(cs, ov) ==
    LET size == NewChunkSize(cs)
        o1   == IF ov < 0 THEN 0 ELSE ov
    IN  IF o1 >= size THEN size \div 2 ELSE o1

\* Positions i are 0-based as in the code; rs[i + 1] is runes[i].
RuneAt(rs, i) == rs[i + 1]

\* runes[from:to]
Slice(rs, from, to) == SubSeq(rs, from + 1, to)

\* findWordBoundary: the backward scan for the last whitespace in
\* [scanStart, endPos); -1 when there is none.
LastWhitespace(rs, scanStart, endPos) ==
    LET ws == {i \in scanStart .. (endPos - 1) : IsSpace(RuneAt(rs, i))}
    IN  IF ws = {} THEN -1 ELSE CHOOSE i \in ws : \A j \in ws : j <= i

\* findWordBoundary: the forward skip over consecutive whitespace, stopping
\* at endPos.
RECURSIVE SkipWhitespacePastEnd(_, _, _)
SkipWhitespacePastEnd(rs, splitPos, endPos) ==
    IF splitPos < Len(rs) /\ IsSpace(RuneAt(rs, splitPos))
    THEN SkipWhitespacePastEnd(rs, splitPos + 1, endPos)
    ELSE splitPos

RECURSIVE SkipWhitespace(_, _, _)
SkipWhitespace(rs, splitPos, endPos) ==
    IF splitPos < endPos /\ IsSpace(RuneAt(rs, splitPos))
    THEN SkipWhitespace(rs, splitPos + 1, endPos)
    ELSE splitPos

\* findWordBoundary: where the backward scan stops
ScanStartWholeChunk(size, startPos, endPos) == startPos

ScanStart(size, startPos, endPos) ==
    LET maxScanBack == IF MaxScanBack > size THEN size ELSE MaxScanBack
    IN  Max(endPos - maxScanBack, startPos)

FindWordBoundaryForced(rs, size, startPos, endPos) == endPos

FindWordBoundary(rs, size, startPos, endPos) ==
    LET scanStart      == ScanStart(size, startPos, endPos)
        lastWhitespace == LastWhitespace(rs, scanStart, endPos)
    IN  IF lastWhitespace >= 0
        THEN SkipWhitespace(rs, lastWhitespace + 1, endPos)
        ELSE endPos

\* One iteration of the loop body: the end of the chunk starting at pos.
ActualEnd(rs, size, pos) ==
    LET totalLen == Len(rs)
        endPos   == Min(pos + size, totalLen)
    IN  IF endPos < totalLen THEN FindWordBoundary(rs, size, pos, endPos) ELSE endPos

\* The position of the next chunk.
NextPositionSkipsOne(actualEnd, ov) == Max(actualEnd - ov + 1, 0)

NextPositionNoOverlap(actualEnd, ov) == actualEnd

NextPosition(actualEnd, ov) == Max(actualEnd - ov, 0)

MkChunkIndexFromOne(rs, idx, from, to) ==
    [Content |-> Slice(rs, from, to), Index |-> idx + 1, StartOffset |-> from, EndOffset |-> to]

MkChunk(rs, idx, from, to) ==
    [Content |-> Slice(rs, from, to), Index |-> idx, StartOffset |-> from, EndOffset |-> to]

\* len(s) of a Go string: the bytes of its UTF-8 encoding
RuneBytes(r) == IF r = "U" THEN 3 ELSE 1

RECURSIVE ByteLen(_)
ByteLen(rs) == IF rs = <<>> THEN 0 ELSE RuneBytes(Head(rs)) + ByteLen(Tail(rs))

\* ChunkText, lines 49-55: the one chunk of a text that fits
WholeTextEndsAtByteLen(rs) ==
    [Content |-> rs, Index |-> 0, StartOffset |-> 0, EndOffset |-> ByteLen(rs)]

WholeText(rs) ==
    [Content |-> rs, Index |-> 0, StartOffset |-> 0, EndOffset |-> Len(rs)]

(* ChunkText as a state machine: the entry checks, then one loop iteration *)
(* per step.  The slice grows by one chunk per iteration; a call that      *)
(* revisits a position never returns, so iterations are cut off once more  *)
(* chunks exist than the text has positions.                               *)

MaxChunks == MaxTextLen + 2

ChunkInit ==
    /\ \/ /\ runes \in Texts
          /\ \E cs \in 0 .. MaxChunkSize, ov \in -1 .. MaxChunkSize :
                /\ chunkerArgs = [chunkSize |-> cs, overlap |-> ov]
                /\ chunkSize = NewChunkSize(cs)
                /\ overlap = NewOverlap(cs, ov)
       \/ /\ runes \in LongTexts
          /\ \E cs \in LongSizes, ov \in 0 .. MaxChunkSize :
                /\ chunkerArgs = [chunkSize |-> cs, overlap |-> ov]
                /\ chunkSize = NewChunkSize(cs)
                /\ overlap = NewOverlap(cs, ov)
    /\ position = 0
    /\ chunkIndex = 0
    /\ chunks = <<>>
    /\ cpc = "call"

\* The arguments of NewChunker: around 0, around the sizes of the model and
\* around the default size and its half
ChunkSizeArgs ==
    (-1 .. MaxChunkSize) \cup {DefaultChunkSize - 1, DefaultChunkSize, DefaultChunkSize + 1}

OverlapArgs ==
    (-1 .. MaxChunkSize) \cup
    {DefaultChunkSize \div 2, DefaultChunkSize - 1, DefaultChunkSize, DefaultChunkSize + 1}

NewChunkerInit ==
    /\ chunkerArgs \in [chunkSize : ChunkSizeArgs, overlap : OverlapArgs]
    /\ runes = <<>>
    /\ chunkSize = 0
    /\ overlap = 0
    /\ position = 0
    /\ chunkIndex = 0
    /\ chunks = <<>>
    /\ cpc = "new"

\* NewChunker
NewChunker ==
    /\ cpc = "new"
    /\ chunkSize' = NewChunkSize(chunkerArgs.chunkSize)
    /\ overlap' = NewOverlap(chunkerArgs.chunkSize, chunkerArgs.overlap)
    /\ cpc' = "done"
    /\ UNCHANGED <<runes, position, chunkIndex, chunks, chunkerArgs>>

ChunkTextEntry ==
    /\ cpc = "call"
    /\ IF runes = <<>>
       THEN /\ chunks' = <<>>
            /\ cpc' = "done"
       ELSE IF Len(runes) <= chunkSize
       THEN /\ chunks' = <<WholeText(runes)>>
            /\ cpc' = "done"
       ELSE /\ chunks' = <<>>
            /\ cpc' = "loop"
    /\ UNCHANGED <<runes, chunkSize, overlap, position, chunkIndex, chunkerArgs>>

ChunkTextLoop ==
    /\ cpc = "loop"
    /\ Len(chunks) < MaxChunks
    /\ IF position < Len(runes)
       THEN LET actualEnd == ActualEnd(runes, chunkSize, position)
            IN  /\ chunks' = Append(chunks, MkChunk(runes, chunkIndex, position, actualEnd))
                /\ IF actualEnd >= Len(runes)
                   THEN /\ cpc' = "done"
                        /\ UNCHANGED <<position, chunkIndex>>
                   ELSE /\ position' = NextPosition(actualEnd, overlap)
                        /\ chunkIndex' = chunkIndex + 1
                        /\ cpc' = "loop"
       ELSE /\ cpc' = "done"
            /\ UNCHANGED <<position, chunkIndex, chunks>>
    /\ UNCHANGED <<runes, chunkSize, overlap, chunkerArgs>>


\* ChunkText as a function, for the orchestrator: the chunks it returns, and
\* returns = FALSE for a text on which the loop never reaches the end.
RECURSIVE ChunkLoop(_, _, _, _, _, _)
ChunkLoop(rs, size, ov, pos, idx, acc) ==
    IF Len(acc) >= MaxChunks THEN [returns |-> FALSE, chunks |-> <<>>]
    ELSE LET actualEnd == ActualEnd(rs, size, pos)
             grown     == Append(acc, MkChunk(rs, idx, pos, actualEnd))
         IN  IF actualEnd >= Len(rs) THEN [returns |-> TRUE, chunks |-> grown]
             ELSE ChunkLoop(rs, size, ov, NextPosition(actualEnd, ov), idx + 1, grown)

ChunkText(rs, size, ov) ==
    IF rs = <<>> THEN [returns |-> TRUE, chunks |-> <<>>]
    ELSE IF Len(rs) <= size THEN [returns |-> TRUE, chunks |-> <<WholeText(rs)>>]
    ELSE ChunkLoop(rs, size, ov, 0, 0, <<>>)

----------------------------------------------------------------------------
(* internal/storage: the SQLite tables                                     *)

Sources == {"s1", "s2"}

\* The rows the index on documents.source finds for a value: the lookup of
\* DELETE ... WHERE source = ?, of SELECT COUNT(*) ... WHERE source = ?,
\* and of the UNIQUE constraint.
DocsWithSourceWrongColumn(docs, source) == {d \in docs : d.source_type = source}

DocsWithSource(docs, source) == {d \in docs : d.source = source}

\* chunks JOIN documents ON c.document_id = d.id, for the documents given
JoinedChunks(rows, docs) == {c \in rows : \E d \in docs : c.document_id = d.id}

\* INTEGER PRIMARY KEY AUTOINCREMENT: one more than the largest rowid the
\* table ever held (sqlite_sequence), never a rowid of a deleted row.
NextRowIDReused(rows, seq) ==
    IF rows = {} THEN 1
    ELSE 1 + (CHOOSE m \in {r.id : r \in rows} : \A r \in rows : r.id <= m)

NextRowID(rows, seq) == seq + 1

\* DELETE FROM documents WHERE source = ?: the tables after the statement.
\* ON DELETE CASCADE removes the chunks of the deleted rows only when the
\* connection enforces foreign keys.
DeleteWhereSourceAll(db, source, fk) ==
    [db EXCEPT !.documents = {},
               !.chunkRows = IF fk THEN {} ELSE db.chunkRows]

DeleteWhereSource(db, source, fk) ==
    LET gone == DocsWithSource(db.documents, source)
    IN  [db EXCEPT !.documents = db.documents \ gone,
                   !.chunkRows = IF fk THEN db.chunkRows \ JoinedChunks(db.chunkRows, gone)
                                 ELSE db.chunkRows]

\* len(chunk.Content): the UTF-8 length of a string
RECURSIVE ContentSize(_)
ContentSize(cs) == IF cs = <<>> THEN 0 ELSE ByteLen(Head(cs).Content) + ContentSize(Tail(cs))

\* INSERT INTO documents (...): the row and the tables after the statement
InsertDocumentSwapsCounts(db, source, sourceType, title, cs) ==
    LET id == NextRowID(db.documents, db.seqDoc)
    IN  [db EXCEPT !.documents = db.documents \cup
                       {[id |-> id, source |-> source, source_type |-> sourceType,
                         content_size |-> Len(cs), chunk_count |-> ContentSize(cs),
                         title |-> title]},
                   !.seqDoc = IF id > db.seqDoc THEN id ELSE db.seqDoc]

InsertDocument(db, source, sourceType, title, cs) ==
    LET id == NextRowID(db.documents, db.seqDoc)
    IN  [db EXCEPT !.documents = db.documents \cup
                       {[id |-> id, source |-> source, source_type |-> sourceType,
                         content_size |-> ContentSize(cs), chunk_count |-> Len(cs),
                         title |-> title]},
                   !.seqDoc = IF id > db.seqDoc THEN id ELSE db.seqDoc]

\* INSERT INTO chunks (...) for one chunk of the argument
InsertChunk(db, docID, chunk) ==
    LET id == NextRowID(db.chunkRows, db.seqChunk)
    IN  [db EXCEPT !.chunkRows = db.chunkRows \cup
                       {[id |-> id, document_id |-> docID, chunk_index |-> chunk.ChunkIndex,
                         content |-> chunk.Content, start_offset |-> chunk.StartOffset,
                         end_offset |-> chunk.EndOffset, embedding |-> chunk.Embedding]},
                   !.seqChunk = IF id > db.seqChunk THEN id ELSE db.seqChunk]

\* The columns of a chunk row that IndexDocument is given
RowAsChunk(c) ==
    [ChunkIndex |-> c.chunk_index, Content |-> c.content, StartOffset |-> c.start_offset,
     EndOffset |-> c.end_offset, Embedding |-> c.embedding]

\* The committed database, as one record
Committed ==
    [documents |-> documents, chunkRows |-> chunkRows, seqDoc |-> seqDoc, seqChunk |-> seqChunk]

\* tx.Rollback(): the committed tables after a transaction is abandoned
AfterRollbackKeepsWrites(committed, work) == work

AfterRollback(committed, work) == committed

\* tx.Commit(): the committed tables after the transaction commits
AfterCommitMerges(committed, work) ==
    [work EXCEPT !.documents = work.documents \cup committed.documents]

AfterCommit(committed, work) == work


----------------------------------------------------------------------------
(* internal/embeddings: the client of the embedding provider               *)

\* The inputs of Embed: n distinct texts, for counts around 0, 1 and 2 batches
TextCounts ==
    {n \in 0 .. 2 * MaxBatchSize + MaxFewTexts :
        \E k \in 0 .. 2 : n - k * MaxBatchSize \in -MaxFewTexts .. MaxFewTexts}

TextsOf(n) == [j \in 1 .. n |-> j]

\* A vector of the provider: the text it embeds and its length
Vector(t, dim) == [of |-> t, dim |-> dim]

\* A nil []float32
NilVector == Vector(0, 0)

\* Embed, line 381: the end of the batch that starts at i
BatchEnd(i, n) == Min(i + MaxBatchSize, n)

\* The data of a complete response for a batch: one item per position, each
\* tagged with its index in the batch
GoodData(batch) ==
    [j \in 1 .. Len(batch) |->
        [Index |-> j - 1, Embedding |-> Vector(batch[j], EmbeddingDimension)]]

Orders == {"in_order", "reversed", "rotated"}

Reorder(data, order) ==
    LET n == Len(data)
    IN  IF order = "reversed" THEN [j \in 1 .. n |-> data[n + 1 - j]]
        ELSE IF order = "rotated" THEN [j \in 1 .. n |-> data[(j % n) + 1]]
        ELSE data

Defects == {"none", "missing", "dimension", "index", "negative"}

\* A response in which item k is left out, has a vector one short, or is
\* tagged with an index outside the batch: the batch size, or -1
WithDefect(data, defect, k) ==
    IF defect = "missing"
    THEN SubSeq(data, 1, k - 1) \o SubSeq(data, k + 1, Len(data))
    ELSE IF defect = "dimension"
    THEN [data EXCEPT ![k].Embedding.dim = EmbeddingDimension - 1]
    ELSE IF defect = "index"
    THEN [data EXCEPT ![k].Index = Len(data)]
    ELSE IF defect = "negative"
    THEN [data EXCEPT ![k].Index = -1]
    ELSE data

\* What a round trip can give: no response (status 0), or a status and a body
MkResponse(status, body, order, defect, data) ==
    [status |-> status, body |-> body, order |-> order, defect |-> defect, data |-> data,
     message |-> IF body = "error" THEN "msg" ELSE "",
     type |-> IF body = "error" THEN "typ" ELSE ""]

\* httpClient.Do(req) for a batch.  With a cancelled context it fails.  The
\* body of req is a bytes.Buffer that the first round trip reads to its end:
\* a later round trip of the same req sends no input, so no vectors come back.
Responses(batch, read, canc) ==
    {MkResponse(0, "none", "", "none", <<>>)}
    \cup (IF canc THEN {}
          ELSE {MkResponse(429, "error", "", "none", <<>>),
                MkResponse(500, "error", "", "none", <<>>),
                MkResponse(500, "garbage", "", "none", <<>>),
                MkResponse(500, "data", "", "none", <<>>),
                MkResponse(200, "error", "", "none", <<>>),
                MkResponse(200, "garbage", "", "none", <<>>),
                MkResponse(200, "unreadable", "", "none", <<>>)})
    \cup (IF canc \/ read THEN {}
          ELSE {MkResponse(200, "data", order, defect,
                           WithDefect(Reorder(GoodData(batch), order), defect, k)) :
                   order \in Orders, defect \in Defects, k \in {1, Len(batch)}})

StoredVectorsByPosition(data, n) ==
    [j \in 1 .. n |-> IF j <= Len(data) THEN data[j].Embedding ELSE NilVector]

\* The vectors stored by the loop over the items when no item is refused:
\* position j holds the vector of the last item tagged j, nil if there is none
StoredVectors(data, n) ==
    [j \in 1 .. n |->
        LET tagged == {m \in 1 .. Len(data) : data[m].Index = j - 1}
        IN  IF tagged = {} THEN NilVector
            ELSE data[CHOOSE m \in tagged : \A x \in tagged : x <= m].Embedding]

\* embedBatch, lines 479-489: the loop over the items of the response stops
\* at the first item with an index outside the batch or a vector of the
\* wrong length.  Only an index that is too large is tested for (line 481):
\* an item with a negative index and a vector of the right length reaches
\* embeddings[item.Index] (line 487), where the run time panics.
ExtractItemsNoDimensionCheck(data, n) ==
    LET refused == {k \in 1 .. Len(data) : data[k].Index >= n}
    IN  IF refused = {} THEN [err |-> "", embeddings |-> StoredVectors(data, n)]
        ELSE [err |-> "invalid_index", embeddings |-> <<>>]

ExtractItems(data, n) ==
    LET refused == {k \in 1 .. Len(data) :
                       \/ data[k].Index >= n
                       \/ data[k].Embedding.dim # EmbeddingDimension
                       \/ data[k].Index < 0}
        first   == CHOOSE k \in refused : \A x \in refused : k <= x
    IN  IF refused = {} THEN [err |-> "", embeddings |-> StoredVectors(data, n)]
        ELSE IF data[first].Index >= n THEN [err |-> "invalid_index", embeddings |-> <<>>]
        ELSE IF data[first].Embedding.dim # EmbeddingDimension
        THEN [err |-> "dimension", embeddings |-> <<>>]
        ELSE [err |-> "panic", embeddings |-> <<>>]

\* embedBatch, lines 478-498: the vectors in batch order, or the error
ExtractEmbeddings(data, n) ==
    LET r == ExtractItems(data, n)
    IN  IF r.err # "" THEN r
        ELSE IF \E j \in 1 .. n : r.embeddings[j] = NilVector
        THEN [err |-> "missing", embeddings |-> <<>>]
        ELSE r

\* embedBatch, line 439: a rate-limit response is retried while attempts remain
RetriesAlways(r, att) == r.status = 429

RetriesOnAnyError(r, att) == r.status # 200 /\ att < MaxRetries - 1

Retries(r, att) == r.status = 429 /\ att < MaxRetries - 1

\* embedBatch, lines 433-498, after a round trip that is not retried: the
\* error ("" if none) and the vectors.  After a last rate-limit response the
\* body is read when it has already been closed (line 441), which fails.
BatchResult(r, n) ==
    LET fail(e) == [err |-> e, message |-> "", type |-> "", embeddings |-> <<>>]
    IN  IF r.status = 0 THEN fail("transport")
        ELSE IF r.status = 429 \/ r.body = "unreadable" THEN fail("read")
        ELSE IF r.body = "garbage" THEN fail("parse")
        ELSE IF r.body = "error"
        THEN [err |-> "api", message |-> r.message, type |-> r.type, embeddings |-> <<>>]
        ELSE IF r.status # 200 THEN fail("http")
        ELSE LET x == ExtractEmbeddings(r.data, n)
             IN  [err |-> x.err, message |-> "", type |-> "", embeddings |-> x.embeddings]

\* embedBatch, line 444: 1 << attempt seconds
Backoff(att) == (2 ^ att) * SecondMs

\* select with ctx.Done(): a closed Done channel is taken; the timer of a
\* wait that has just begun is not ready
SelectsDoneNever(c) == FALSE

SelectsDone(c) == c

NoEmbedResult == [returned |-> FALSE, vectors |-> <<>>, err |-> "", message |-> "", type |-> ""]

EmbedReturns(vectors, err, message, type) ==
    [returned |-> TRUE, vectors |-> vectors, err |-> err, message |-> message, type |-> type]

\* The records of the history
CallEvent(from, to, att, carried, r) ==
    [ev |-> "call", from |-> from, to |-> to, attempt |-> att, carried |-> carried,
     status |-> r.status, body |-> r.body, order |-> r.order, defect |-> r.defect,
     ms |-> 0, completed |-> TRUE]

WaitEvent(kind, from, ms, completed) ==
    [ev |-> kind, from |-> from, to |-> 0, attempt |-> 0, carried |-> 0,
     status |-> 0, body |-> "", order |-> "", defect |-> "", ms |-> ms,
     completed |-> completed]

EmbedInit ==
    /\ texts \in {TextsOf(n) : n \in TextCounts}
    /\ embedPc = "call"
    /\ batchStart = 0
    /\ attempt = 0
    /\ bodyRead = FALSE
    /\ allEmbeddings = <<>>
    /\ embedResult = NoEmbedResult
    /\ cancelled = FALSE
    /\ log = <<>>

\* No Embed call is running
EmbedIdle ==
    /\ texts = <<>>
    /\ embedPc = "done"
    /\ batchStart = 0
    /\ attempt = 0
    /\ bodyRead = FALSE
    /\ allEmbeddings = <<>>
    /\ embedResult = NoEmbedResult
    /\ cancelled = FALSE
    /\ log = <<>>

\* Embed, lines 374-380: the empty input returns at once; otherwise the
\* first batch and its request are set up (embedBatch, lines 411-428)
EmbedCall ==
    /\ embedPc = "call"
    /\ IF Len(texts) = 0
       THEN /\ embedPc' = "done"
            /\ embedResult' = EmbedReturns(<<>>, "", "", "")
       ELSE /\ embedPc' = "do"
            /\ UNCHANGED embedResult
    /\ UNCHANGED <<texts, batchStart, attempt, bodyRead, allEmbeddings, cancelled, log>>

\* embedBatch, lines 433-498, and Embed, lines 387-403: one round trip and
\* what follows it up to the next wait or the return.  A run-time panic
\* unwinds the call, which returns nothing; nothing in the program recovers.
EmbedDo ==
    /\ embedPc = "do"
    /\ LET end   == BatchEnd(batchStart, Len(texts))
           batch == Slice(texts, batchStart, end)
       IN  \E r \in Responses(batch, bodyRead, cancelled) :
              /\ log' = Append(log, CallEvent(batchStart, end, attempt,
                                              IF bodyRead THEN 0 ELSE Len(batch), r))
              /\ bodyRead' = TRUE
              /\ IF Retries(r, attempt)
                 THEN /\ embedPc' = "backoff"
                      /\ UNCHANGED <<allEmbeddings, embedResult>>
                 ELSE LET res == BatchResult(r, Len(batch))
                      IN  IF res.err = "panic"
                          THEN /\ embedPc' = "panicked"
                               /\ UNCHANGED <<allEmbeddings, embedResult>>
                          ELSE IF res.err # ""
                          THEN /\ embedPc' = "done"
                               /\ embedResult' = EmbedReturns(<<>>, res.err, res.message, res.type)
                               /\ UNCHANGED allEmbeddings
                          ELSE /\ allEmbeddings' = allEmbeddings \o res.embeddings
                               /\ IF end < Len(texts)
                                  THEN /\ embedPc' = "pause"
                                       /\ UNCHANGED embedResult
                                  ELSE /\ embedPc' = "done"
                                       /\ embedResult' = EmbedReturns(allEmbeddings', "", "", "")
    /\ UNCHANGED <<texts, batchStart, attempt, cancelled>>

\* embedBatch, lines 445-447: the backoff has elapsed, the next attempt follows
BackoffElapsed ==
    /\ embedPc = "backoff"
    /\ ~SelectsDone(cancelled)
    /\ log' = Append(log, WaitEvent("backoff", batchStart, Backoff(attempt), TRUE))
    /\ attempt' = attempt + 1
    /\ embedPc' = "do"
    /\ UNCHANGED <<texts, batchStart, bodyRead, allEmbeddings, embedResult, cancelled>>

\* embedBatch, lines 448-449: cancelled in the backoff; Embed returns the error
BackoffCancelled ==
    /\ embedPc = "backoff"
    /\ SelectsDone(cancelled)
    /\ log' = Append(log, WaitEvent("backoff", batchStart, Backoff(attempt), FALSE))
    /\ embedPc' = "done"
    /\ embedResult' = EmbedReturns(<<>>, "cancelled", "", "")
    /\ UNCHANGED <<texts, batchStart, attempt, bodyRead, allEmbeddings, cancelled>>

\* Embed, line 398: the pause has elapsed; the loop goes on to the next batch
PauseElapsed ==
    /\ embedPc = "pause"
    /\ ~SelectsDone(cancelled)
    /\ log' = Append(log, WaitEvent("pause", batchStart, BatchPauseMs, TRUE))
    /\ batchStart' = batchStart + MaxBatchSize
    /\ attempt' = 0
    /\ bodyRead' = FALSE
    /\ embedPc' = "do"
    /\ UNCHANGED <<texts, allEmbeddings, embedResult, cancelled>>

\* Embed, lines 399-400: cancelled in the pause
PauseCancelled ==
    /\ embedPc = "pause"
    /\ SelectsDone(cancelled)
    /\ log' = Append(log, WaitEvent("pause", batchStart, BatchPauseMs, FALSE))
    /\ embedPc' = "done"
    /\ embedResult' = EmbedReturns(<<>>, "cancelled", "", "")
    /\ UNCHANGED <<texts, batchStart, attempt, bodyRead, allEmbeddings, cancelled>>

\* The caller cancels ctx
Cancel ==
    /\ ~cancelled
    /\ embedPc \in {"do", "backoff", "pause"}
    /\ cancelled' = TRUE
    /\ UNCHANGED <<texts, embedPc, batchStart, attempt, bodyRead, allEmbeddings,
                   embedResult, log>>

----------------------------------------------------------------------------
(* internal/search: the orchestrator                                       *)

Procs == {1, 2}

MaxRequests == 3

\* The chunker the service is configured with (CHUNK_SIZE, OVERLAP)
ServiceChunkSize == 2
ServiceOverlap == 0

\* Contents a request, a file or a URL can carry
Contents == {<<>>, <<"a">>, <<"U", " ", "a">>}

\* The requests the protocol layer can pass to Service.Index
\* ("s1" names a file as well as an inline source; "s2" is a URL)
IndexRequests ==
    [FilePath : {"", "s1"}, URL : {"", "s2"}, Content : Contents,
     Source : {"", "s1"}, Reindex : BOOLEAN]

\* What os.ReadFile or Fetcher.FetchURL can answer
IOResults == [err : BOOLEAN, content : {<<>>, <<"a">>}, title : {"T"}]

NoReq == [source |-> "", source_type |-> "", content |-> <<>>, title |-> "", reindex |-> FALSE]

NoTx == [documents |-> {}, chunkRows |-> {}, seqDoc |-> 0, seqChunk |-> 0]

NoResponse == [op |-> "none", source |-> "", outcome |-> "", chunk_count |-> 0]

\* Service.Index returns: an IndexResponse ("ok") or an error; source is the
\* source the response or the error message names, if it names one
IndexResponseAlwaysOk(outcome, source) ==
    [op |-> "index", source |-> source, outcome |-> "ok", chunk_count |-> 0]

IndexResponse(outcome, source) ==
    [op |-> "index", source |-> source, outcome |-> outcome, chunk_count |-> 0]

\* Service.Delete returns a DeleteResponse for source s
DeleteResponseAlwaysDeleted(s, deleted) ==
    [op |-> "delete", source |-> s, outcome |-> "deleted", chunk_count |-> 0]

DeleteResponse(s, deleted) ==
    [op |-> "delete", source |-> s, outcome |-> IF deleted THEN "deleted" ELSE "not_deleted",
     chunk_count |-> 0]

NoCommit == [source |-> "", reindex |-> FALSE, replaced |-> FALSE, content |-> <<>>]

\* The embedding the provider returns for a text
EmbeddingOf(text) == <<"vec", text>>

\* Client.Embed on success: one vector per text, in order
Embed(inputs) == [i \in 1 .. Len(inputs) |-> EmbeddingOf(inputs[i])]

\* Service.Index, lines 232-242
StorageChunksEmbeddingsReversed(cs, embeddings) ==
    [i \in 1 .. Len(cs) |->
        [ChunkIndex |-> cs[i].Index, Content |-> cs[i].Content,
         StartOffset |-> cs[i].StartOffset, EndOffset |-> cs[i].EndOffset,
         Embedding |-> embeddings[Len(cs) + 1 - i]]]

StorageChunks(cs, embeddings) ==
    [i \in 1 .. Len(cs) |->
        [ChunkIndex |-> cs[i].Index, Content |-> cs[i].Content,
         StartOffset |-> cs[i].StartOffset, EndOffset |-> cs[i].EndOffset,
         Embedding |-> embeddings[i]]]

\* NewDatabase on a fresh file.  Foreign-key enforcement is a property of the
\* build: NewDatabase sets no PRAGMA and no DSN parameter, so it is off unless
\* the driver was compiled with it on by default.
StoreInit ==
    /\ foreignKeys \in BOOLEAN
    /\ documents = {}
    /\ chunkRows = {}
    /\ seqDoc = 0
    /\ seqChunk = 0
    /\ writer = 0
    /\ written = {}

ReqInit ==
    /\ pc = [p \in Procs |-> "idle"]
    /\ req = [p \in Procs |-> NoReq]
    /\ args = [p \in Procs |-> <<>>]
    /\ tx = [p \in Procs |-> NoTx]
    /\ documentID = [p \in Procs |-> 0]
    /\ next = [p \in Procs |-> 0]
    /\ embedCalls = [p \in Procs |-> 0]
    /\ checkSeq = [p \in Procs |-> 0]
    /\ started = 0
    /\ response = NoResponse
    /\ lastCommit = NoCommit

\* The step returns nothing to the protocol layer and commits nothing.
Silent == response' = NoResponse /\ lastCommit' = NoCommit

\* Service.Index, lines 250-255: the IndexResponse of a request that has been
\* stored; len(chunks) is the length of storageChunks (line 233)
Indexed(p) == [IndexResponse("ok", req[p].source) EXCEPT !.chunk_count = Len(args[p])]

\* Service.Index returns: the outcome goes to the caller, the request's
\* locals are gone and the goroutine is free.
Return(p, outcome) ==
    /\ pc' = [pc EXCEPT ![p] = "idle"]
    /\ response' = IF outcome = "ok" THEN Indexed(p)
                   ELSE IndexResponse(outcome, IF outcome = "conflict" THEN req[p].source ELSE "")
    /\ req' = [req EXCEPT ![p] = NoReq]
    /\ args' = [args EXCEPT ![p] = <<>>]
    /\ tx' = [tx EXCEPT ![p] = NoTx]
    /\ documentID' = [documentID EXCEPT ![p] = 0]
    /\ next' = [next EXCEPT ![p] = 0]
    /\ embedCalls' = [embedCalls EXCEPT ![p] = 0]
    /\ checkSeq' = [checkSeq EXCEPT ![p] = 0]

\* The request goes on to the next stage with the source resolved to r.
Resolved(p, r) ==
    /\ pc' = [pc EXCEPT ![p] = "check"]
    /\ req' = [req EXCEPT ![p] = r]
    /\ response' = NoResponse
    /\ UNCHANGED <<args, tx, documentID, next, embedCalls, checkSeq>>

\* Service.Index, lines 149-163 (and Server.handleIndex, lines 58-71): the
\* number of ways of naming the content that the request supplies
SourceCountContentAlone(r) ==
    (IF r.FilePath # "" THEN 1 ELSE 0) + (IF r.URL # "" THEN 1 ELSE 0)
    + (IF r.Content # <<>> THEN 1 ELSE 0)

SourceCount(r) ==
    LET hasFilePath == r.FilePath # ""
        hasURL      == r.URL # ""
        hasContent  == r.Content # <<>> /\ r.Source # ""
    IN  (IF hasFilePath THEN 1 ELSE 0) + (IF hasURL THEN 1 ELSE 0)
        + (IF hasContent THEN 1 ELSE 0)

\* What a call of os.ReadFile or of Fetcher.FetchURL is given and returns;
\* NoIO when the request makes neither call
NoIO == [op |-> "none", err |-> FALSE, content |-> <<>>, title |-> ""]

ReadFileCalls ==
    {[op |-> "ReadFile", err |-> io.err, content |-> io.content, title |-> io.title] :
        io \in IOResults}

FetchURLCalls ==
    {[op |-> "FetchURL", err |-> io.err, content |-> io.content, title |-> io.title] :
        io \in IOResults}

IOCalls == {NoIO} \cup ReadFileCalls \cup FetchURLCalls

\* A free goroutine takes the next request
CanStart(p) == pc[p] = "idle" /\ started < MaxRequests

\* Service.Index, lines 147-197: validation and resolution of the source, for
\* the request r and the one read or fetch io the call makes, if it makes one
IndexStartWith(p, r, io) ==
    /\ CanStart(p)
    /\ started' = started + 1
    /\ LET hasFilePath == r.FilePath # ""
           hasURL      == r.URL # ""
       IN  IF SourceCount(r) # 1
           THEN io = NoIO /\ Return(p, "validation_error")
           ELSE IF hasFilePath
           THEN /\ io.op = "ReadFile"
                /\ IF io.err
                   THEN Return(p, "fetch_error")
                   ELSE Resolved(p, [source |-> r.FilePath, source_type |-> "file",
                                     content |-> io.content, title |-> "",
                                     reindex |-> r.Reindex])
           ELSE IF hasURL
           THEN /\ io.op = "FetchURL"
                /\ IF io.err
                   THEN Return(p, "fetch_error")
                   ELSE Resolved(p, [source |-> r.URL, source_type |-> "url",
                                     content |-> io.content, title |-> io.title,
                                     reindex |-> r.Reindex])
           ELSE /\ io = NoIO
                /\ Resolved(p, [source |-> r.Source, source_type |-> "content",
                                content |-> r.Content, title |-> "", reindex |-> r.Reindex])
    /\ lastCommit' = NoCommit
    /\ UNCHANGED <<storeVars, chunkVars, embedVars>>

\* The calls of IOCalls that pass the guards of IndexStartWith for r
IOCallsOf(r) ==
    IF SourceCount(r) # 1 THEN {NoIO}
    ELSE IF r.FilePath # "" THEN ReadFileCalls
    ELSE IF r.URL # "" THEN FetchURLCalls
    ELSE {NoIO}

IndexStart(p) ==
    /\ CanStart(p)
    /\ \E r \in IndexRequests : \E io \in IOCallsOf(r) :
          IndexStartWith(p, r, io) /\ UNCHANGED auxVars

NoReceived == [request |-> [FilePath |-> "", URL |-> "", Content |-> <<>>, Source |-> "",
                            Reindex |-> FALSE],
               io |-> NoIO, seq |-> 0]

ReceivedIdle == received = NoReceived

\* Service.Index up to the resolution of the source, with its request and its
\* read or fetch recorded
IndexReceive(p) ==
    /\ CanStart(p)
    /\ \E r \in IndexRequests : \E io \in IOCalls :
          /\ IndexStartWith(p, r, io)
          /\ received' = [request |-> r, io |-> io, seq |-> started + 1]
          /\ UNCHANGED <<searchVars, serialVars>>

\* line 200: the existence check is made unless the request opts in to overwrite
MustCheckNever(r) == FALSE

MustCheck(r) == ~r.reindex

\* The tables a query outside a transaction reads (d.db.Query, d.db.QueryRow):
\* the committed ones, whatever an open transaction has written so far.
ReaderSeesUncommitted == IF writer # 0 THEN tx[writer] ELSE Committed

ReaderTables == Committed

\* Database.DocumentExists: SELECT COUNT(*) ... WHERE source = ?, count > 0
DocumentExistsAlways(source) == TRUE

DocumentExistsMoreThanOne(source) ==
    Cardinality(DocsWithSource(ReaderTables.documents, source)) > 1

DocumentExists(source) == Cardinality(DocsWithSource(ReaderTables.documents, source)) > 0

\* line 212: if len(chunks) == 0
NoChunksNever(cs) == FALSE

NoChunks(cs) == Len(cs) = 0

\* Service.Index, lines 199-214: the existence check and the chunking.  A
\* request whose ChunkText call does not return stays in "chunking".
IndexCheck(p) ==
    /\ pc[p] = "check"
    /\ \E queryFails \in BOOLEAN :
          LET exists  == DocumentExists(req[p].source)
              chunked == ChunkText(req[p].content, ServiceChunkSize, ServiceOverlap)
          IN  IF MustCheck(req[p]) /\ queryFails
              THEN Return(p, "check_error")
              ELSE IF MustCheck(req[p]) /\ exists
              THEN Return(p, "conflict")
              ELSE IF ~chunked.returns
              THEN /\ pc' = [pc EXCEPT ![p] = "chunking"]
                   /\ response' = NoResponse
                   /\ UNCHANGED <<req, args, tx, documentID, next, embedCalls, checkSeq>>
              ELSE IF NoChunks(chunked.chunks)
              THEN Return(p, "no_chunks")
              ELSE /\ pc' = [pc EXCEPT ![p] = "embed"]
                   /\ checkSeq' = [checkSeq EXCEPT ![p] =
                                      IF req[p].reindex THEN 0 ELSE ReaderTables.seqDoc]
                   /\ response' = NoResponse
                   /\ UNCHANGED <<req, args, tx, documentID, next, embedCalls>>
    /\ lastCommit' = NoCommit
    /\ UNCHANGED <<started, storeVars, chunkVars, embedVars, auxVars>>

\* Service.Index, lines 216-242: embed all chunk texts, pair them with the chunks
IndexEmbed(p) ==
    /\ pc[p] = "embed"
    /\ \E embedFails \in BOOLEAN :
          LET cs              == ChunkText(req[p].content, ServiceChunkSize, ServiceOverlap).chunks
              chunkTexts      == [i \in 1 .. Len(cs) |-> cs[i].Content]
              chunkEmbeddings == Embed(chunkTexts)
          IN  IF embedFails
              THEN Return(p, "embed_error")
              ELSE IF Len(chunkEmbeddings) # Len(cs)
              THEN Return(p, "count_mismatch")
              ELSE /\ args' = [args EXCEPT ![p] = StorageChunks(cs, chunkEmbeddings)]
                   /\ embedCalls' = [embedCalls EXCEPT ![p] = embedCalls[p] + 1]
                   /\ pc' = [pc EXCEPT ![p] = "begin"]
                   /\ response' = NoResponse
                   /\ UNCHANGED <<req, tx, documentID, next, checkSeq>>
    /\ lastCommit' = NoCommit
    /\ UNCHANGED <<started, storeVars, chunkVars, embedVars, auxVars>>

(* Database.IndexDocument, one statement per step.  The transaction works  *)
(* on its own view of the tables; the committed tables change at Commit.   *)
(* SQLite admits one writing transaction at a time: the first write        *)
(* statement takes the write lock, Commit and Rollback release it.         *)

TxStages == {"begin", "delete", "insertdoc", "chunks"}

\* line 116: d.db.Begin()
TxBegin(p) ==
    /\ pc[p] = "begin"
    /\ pc' = [pc EXCEPT ![p] = "delete"]
    /\ tx' = [tx EXCEPT ![p] = NoTx]
    /\ Silent
    /\ UNCHANGED <<req, args, documentID, next, embedCalls, checkSeq, started,
                   storeVars, chunkVars, embedVars, auxVars>>

\* line 123: DELETE FROM documents WHERE source = ?
TxDelete(p) ==
    /\ pc[p] = "delete"
    /\ writer = 0
    /\ writer' = p
    /\ tx' = [tx EXCEPT ![p] = DeleteWhereSource(Committed, req[p].source, foreignKeys)]
    /\ pc' = [pc EXCEPT ![p] = "insertdoc"]
    /\ Silent
    /\ UNCHANGED <<req, args, documentID, next, embedCalls, checkSeq, started, chunkVars, embedVars,
                   auxVars, foreignKeys, documents, chunkRows, seqDoc, seqChunk, written>>

\* lines 128-153: INSERT INTO documents, LastInsertId, Prepare.
\* source is UNIQUE: the insert succeeds only if no row holds the source.
TxInsertDoc(p) ==
    /\ pc[p] = "insertdoc"
    /\ DocsWithSource(tx[p].documents, req[p].source) = {}
    /\ LET after == InsertDocument(tx[p], req[p].source, req[p].source_type,
                                   req[p].title, args[p])
       IN  /\ tx' = [tx EXCEPT ![p] = after]
           /\ documentID' = [documentID EXCEPT ![p] =
                                (CHOOSE d \in after.documents \ tx[p].documents : TRUE).id]
    /\ next' = [next EXCEPT ![p] = 1]
    /\ pc' = [pc EXCEPT ![p] = "chunks"]
    /\ Silent
    /\ UNCHANGED <<req, args, embedCalls, checkSeq, started, storeVars, chunkVars, embedVars, auxVars>>

\* lines 155-165: one iteration of the chunk loop.  With foreign keys
\* enforced the insert needs its document row.
TxInsertChunk(p) ==
    /\ pc[p] = "chunks"
    /\ next[p] <= Len(args[p])
    /\ foreignKeys => \E d \in tx[p].documents : d.id = documentID[p]
    /\ tx' = [tx EXCEPT ![p] = InsertChunk(tx[p], documentID[p], args[p][next[p]])]
    /\ next' = [next EXCEPT ![p] = next[p] + 1]
    /\ Silent
    /\ UNCHANGED <<pc, req, args, documentID, embedCalls, checkSeq, started,
                   storeVars, chunkVars, embedVars, auxVars>>

\* line 167: tx.Commit() succeeds; Service.Index returns its IndexResponse
TxCommit(p) ==
    /\ pc[p] = "chunks"
    /\ next[p] > Len(args[p])
    /\ LET after == AfterCommit(Committed, tx[p])
       IN  /\ documents' = after.documents
           /\ chunkRows' = after.chunkRows
           /\ seqDoc' = after.seqDoc
           /\ seqChunk' = after.seqChunk
           /\ written' = {w \in written : w.id # documentID[p]
                                          /\ \E d \in after.documents : d.id = w.id}
                         \cup {[id |-> documentID[p], chunks |-> args[p]]}
    /\ lastCommit' = [source |-> req[p].source, reindex |-> req[p].reindex,
                       replaced |-> \E d \in documents : d.source = req[p].source,
                       content |-> req[p].content]
    /\ writer' = 0
    /\ Return(p, "ok")
    /\ UNCHANGED <<started, foreignKeys, chunkVars, embedVars, auxVars>>

\* Any statement of the transaction (Begin, the DELETE, an INSERT, the
\* serialization of an embedding, Commit) returns an error: IndexDocument
\* returns it, and its deferred tx.Rollback() is still to run.
TxFail(p) ==
    /\ pc[p] \in TxStages
    /\ pc' = [pc EXCEPT ![p] = "rollback"]
    /\ Silent
    /\ UNCHANGED <<req, args, tx, documentID, next, embedCalls, checkSeq, started,
                   storeVars, chunkVars, embedVars, auxVars>>

\* line 120: the deferred tx.Rollback(); Service.Index returns the error
TxRollback(p) ==
    /\ pc[p] = "rollback"
    /\ LET after == AfterRollback(Committed, tx[p])
       IN  /\ documents' = IF writer = p THEN after.documents ELSE documents
           /\ chunkRows' = IF writer = p THEN after.chunkRows ELSE chunkRows
           /\ seqDoc' = IF writer = p THEN after.seqDoc ELSE seqDoc
           /\ seqChunk' = IF writer = p THEN after.seqChunk ELSE seqChunk
    /\ writer' = IF writer = p THEN 0 ELSE writer
    /\ Return(p, "storage_error")
    /\ lastCommit' = NoCommit
    /\ UNCHANGED <<started, foreignKeys, written, chunkVars, embedVars, auxVars>>

\* Service.Delete over Database.DeleteDocument: one autocommit DELETE
Delete(s) ==
    /\ writer = 0
    /\ \E execFails \in BOOLEAN :
          LET after        == DeleteWhereSource(Committed, s, foreignKeys)
              rowsAffected == Cardinality(documents \ after.documents)
          IN  IF execFails \/ rowsAffected = 0
              THEN /\ response' = DeleteResponse(s, FALSE)
                   /\ UNCHANGED <<documents, chunkRows, written>>
              ELSE /\ response' = DeleteResponse(s, TRUE)
                   /\ documents' = after.documents
                   /\ chunkRows' = after.chunkRows
                   /\ written' = {w \in written : \E d \in after.documents : d.id = w.id}
    /\ lastCommit' = NoCommit
    /\ UNCHANGED <<pc, req, args, tx, documentID, next, embedCalls, checkSeq,
                   started, foreignKeys, seqDoc, seqChunk, writer, chunkVars, embedVars, auxVars>>

\* What one SELECT of a reader (Database.Search with a source filter,
\* ListDocuments, DocumentExists) finds for a source in the committed tables
View(s) ==
    LET docs == DocsWithSource(ReaderTables.documents, s)
    IN  [docs |-> docs, rows |-> JoinedChunks(ReaderTables.chunkRows, docs)]

----------------------------------------------------------------------------
(* internal/search and internal/storage: the search request                *)

MaxRows == 2
MaxTopK == 2
MaxDirection == 2
DefaultTopK == 5
DefaultMinScore == 3
ScoreOne == 10

\* Embeddings of the search model: unit vectors in the plane, named by their
\* angle in quarter turns.  Scores, distances and min_score are in tenths:
\* ScoreOne is 1.0 and DefaultMinScore is 0.3.
Directions == 0 .. MaxDirection
QueryDirections == {0, 1}

Cosine(quarterTurns) ==
    CASE quarterTurns = 0 -> ScoreOne
      [] quarterTurns = 2 -> -ScoreOne
      [] OTHER -> 0

\* vec_distance_cosine(a, b) = 1 - cos(a, b)
CosineDistance(a, b) == ScoreOne - Cosine(IF a > b THEN a - b ELSE b - a)

\* (1 - vec_distance_cosine(c.embedding, ?)) AS score
ScoreIsDistance(embedding, query) == CosineDistance(embedding, query)

Score(embedding, query) == ScoreOne - CosineDistance(embedding, query)

\* FROM chunks c JOIN documents d ON c.document_id = d.id WHERE 1=1
\* [AND d.source = ?]: the pairs of rows the query ranks
CandidatesUnfiltered(db, sourceFilter) ==
    {pr \in db.chunkRows \X db.documents : pr[1].document_id = pr[2].id}

Candidates(db, sourceFilter) ==
    {pr \in db.chunkRows \X db.documents :
        /\ pr[1].document_id = pr[2].id
        /\ sourceFilter # "" => pr[2].source = sourceFilter}

\* rows.Scan(&result.Content, &result.Source, &result.ChunkIndex, &result.Score)
ScoredRows(db, query, sourceFilter) ==
    {[Content |-> pr[1].content, Source |-> pr[2].source,
      ChunkIndex |-> pr[1].chunk_index, Score |-> Score(pr[1].embedding, query)] :
        pr \in Candidates(db, sourceFilter)}

\* ORDER BY score DESC: every order of the rows the clause allows; rows of
\* equal score come in an order of the engine's choosing
Rankings(items) ==
    {r \in [1 .. Cardinality(items) -> items] :
        /\ \A i, j \in DOMAIN r : i # j => r[i] # r[j]
        /\ \A i, j \in DOMAIN r : i < j => r[i].Score >= r[j].Score}

\* LIMIT ?: a negative limit is no limit
LimitOff(r, k) == r

Limit(r, k) == IF k < 0 THEN r ELSE SubSeq(r, 1, Min(k, Len(r)))

\* if result.Score >= minScore { results = append(results, result) }
AtLeast(r, minScore) ==
    LET Keeps(x) == x.Score >= minScore
    IN  SelectSeq(r, Keeps)

\* Database.Search after the dimension check: the result lists it can return
DatabaseSearch(db, query, topK, minScore, sourceFilter) ==
    {AtLeast(Limit(r, topK), minScore) : r \in Rankings(ScoredRows(db, query, sourceFilter))}

\* Service.Search, lines 107-109
EffectiveTopK(topK) == IF topK <= 0 THEN DefaultTopK ELSE topK

NoSearchResult == [err |-> "none", Results |-> <<>>, Count |-> -1]

\* The values of min_score of the model: -1.0, 0, 0.3, 1.0 and 2.0
MinScores == {-ScoreOne, 0, DefaultMinScore, ScoreOne, 2 * ScoreOne}

SearchRequests ==
    [Query : QueryDirections, TopK : 0 .. MaxTopK, MinScore : MinScores, SourceFilter : {""} \cup Sources]

NoSearchArgs == [Query |-> "", TopK |-> 0, MinScore |-> [nil |-> TRUE, value |-> 0], SourceFilter |-> ""]

NoSearchRequest == [Query |-> 0, TopK |-> 0, MinScore |-> 0, SourceFilter |-> ""]

NoDbSearch == [called |-> FALSE, queryEmbedding |-> 0, topK |-> 0, minScore |-> 0, sourceFilter |-> ""]

\* Service.Search, line 123: the arguments of s.db.Search
DbSearchCall(r) ==
    [called |-> TRUE, queryEmbedding |-> r.Query, topK |-> EffectiveTopK(r.TopK),
     minScore |-> r.MinScore, sourceFilter |-> r.SourceFilter]

\* Service.Search: the query is embedded and the database searched; a failure
\* of either is returned as the error.
Search ==
    /\ searchPc = "call"
    /\ \E fails \in {"none", "embed", "database"} :
          /\ dbSearch' = IF fails = "embed" THEN NoDbSearch
                         ELSE DbSearchCall(searchReq)
          /\ IF fails # "none"
             THEN searchResult' = [err |-> fails, Results |-> <<>>, Count |-> 0]
             ELSE \E results \in DatabaseSearch(ReaderTables, searchReq.Query,
                                                EffectiveTopK(searchReq.TopK),
                                                searchReq.MinScore, searchReq.SourceFilter) :
                     searchResult' = [err |-> "none", Results |-> results, Count |-> Len(results)]
    /\ searchPc' = "done"
    /\ UNCHANGED <<searchArgs, searchReq>>

\* A database of the search model: rows 1 .. n of table chunks, each with the
\* document it belongs to and its embedding.  Document 1 was deleted and has
\* left its chunks behind, documents 2 and 3 are those of the two sources.
DeletedID == 1
SourceOfID(id) == IF id = 2 THEN "s1" ELSE "s2"

SearchRows(f) ==
    {[id |-> i, document_id |-> f[i][1],
      chunk_index |-> Cardinality({j \in 1 .. i - 1 : f[j][1] = f[i][1]}),
      content |-> <<"a">>,
      start_offset |-> Cardinality({j \in 1 .. i - 1 : f[j][1] = f[i][1]}),
      end_offset |-> Cardinality({j \in 1 .. i : f[j][1] = f[i][1]}),
      embedding |-> f[i][2]] : i \in DOMAIN f}

SearchDocuments(f) ==
    {[id |-> d, source |-> SourceOfID(d), source_type |-> "text",
      content_size |-> Cardinality({j \in DOMAIN f : f[j][1] = d}),
      chunk_count |-> Cardinality({j \in DOMAIN f : f[j][1] = d}),
      title |-> ""] : d \in {f[j][1] : j \in DOMAIN f} \ {DeletedID}}

SearchWritten(f) ==
    {[id |-> d.id,
      chunks |-> [k \in 1 .. d.chunk_count |->
                    RowAsChunk(CHOOSE c \in SearchRows(f) :
                                  c.document_id = d.id /\ c.chunk_index = k - 1)]] :
        d \in SearchDocuments(f)}

SearchTables ==
    /\ \E n \in 0 .. MaxRows : \E f \in [1 .. n -> (1 .. 3) \X Directions] :
          /\ documents = SearchDocuments(f)
          /\ chunkRows = SearchRows(f)
          /\ written = SearchWritten(f)
          /\ seqChunk = n
    /\ foreignKeys = FALSE
    /\ seqDoc = 3
    /\ writer = 0

\* A call of Service.Search
SearchInit ==
    /\ SearchTables
    /\ searchPc = "call"
    /\ searchArgs = NoSearchArgs
    /\ searchReq \in SearchRequests
    /\ dbSearch = NoDbSearch
    /\ searchResult = NoSearchResult

SearchIdle ==
    /\ searchPc = "done"
    /\ searchArgs = NoSearchArgs
    /\ searchReq = NoSearchRequest
    /\ dbSearch = NoDbSearch
    /\ searchResult = NoSearchResult

\* The arguments the search tool can be called with: the query is empty or
\* one whose embedding is a query direction; min_score is a *float64
Queries == {"", "q0", "q1"}

QueryEmbedding(q) == IF q = "q1" THEN 1 ELSE 0

SearchArgsSet ==
    [Query : Queries, TopK : -1 .. MaxTopK,
     MinScore : {[nil |-> TRUE, value |-> 0]} \cup {[nil |-> FALSE, value |-> m] : m \in MinScores},
     SourceFilter : {""} \cup Sources]

\* handleSearch, lines 20-22
HandlerTopK(topK) == IF topK <= 0 THEN DefaultTopK ELSE topK

\* handleSearch, lines 24-27
MinScoreZeroIsUnset(ptr) == IF ptr.nil \/ ptr.value = 0 THEN DefaultMinScore ELSE ptr.value

MinScoreOf(ptr) == IF ptr.nil THEN DefaultMinScore ELSE ptr.value

\* handleSearch: an empty query is refused; the others go to Service.Search
\* with the defaults filled in
handleSearch ==
    /\ searchPc = "handle"
    /\ IF searchArgs.Query = ""
       THEN /\ searchResult' = [err |-> "query", Results |-> <<>>, Count |-> 0]
            /\ searchPc' = "done"
            /\ UNCHANGED searchReq
       ELSE /\ searchReq' = [Query |-> QueryEmbedding(searchArgs.Query),
                             TopK |-> HandlerTopK(searchArgs.TopK),
                             MinScore |-> MinScoreOf(searchArgs.MinScore),
                             SourceFilter |-> searchArgs.SourceFilter]
            /\ searchPc' = "call"
            /\ UNCHANGED searchResult
    /\ UNCHANGED <<searchArgs, dbSearch>>

\* A call of the search tool
HandleSearchInit ==
    /\ SearchTables
    /\ searchPc = "handle"
    /\ searchArgs \in SearchArgsSet
    /\ searchReq = NoSearchRequest
    /\ dbSearch = NoDbSearch
    /\ searchResult = NoSearchResult

----------------------------------------------------------------------------
(* internal/storage: embeddings as BLOBs                                   *)

MaxStride == 2
BytesPerFloat == 4
ByteValues == 256
SignBit == 128

\* A float32 is its IEEE 754 bit pattern: sign (1 bit), exponent (8 bits),
\* mantissa (23 bits).  The embeddings of the program are decoded from JSON
\* numbers, so they are finite: 0, -0, 1, -1, the smallest subnormal, the
\* largest finite value, about 0.001, and a pattern whose four bytes differ.
Float32s ==
    << [sign |-> 0, exponent |-> 0, mantissa |-> 0],
       [sign |-> 1, exponent |-> 0, mantissa |-> 0],
       [sign |-> 0, exponent |-> 127, mantissa |-> 0],
       [sign |-> 1, exponent |-> 127, mantissa |-> 0],
       [sign |-> 0, exponent |-> 0, mantissa |-> 1],
       [sign |-> 0, exponent |-> 254, mantissa |-> 8388607],
       [sign |-> 0, exponent |-> 117, mantissa |-> 201327],
       [sign |-> 1, exponent |-> 129, mantissa |-> 1193046] >>

\* The vector of length n that goes through Float32s from an offset by a stride
VectorOf(n, offset, stride) ==
    [i \in 1 .. n |-> Float32s[((offset + (i - 1) * stride) % Len(Float32s)) + 1]]

\* math.Float32bits(x) as its four bytes, most significant first
BitsBytes(x) ==
    << x.sign * SignBit + x.exponent \div 2,
       (x.exponent % 2) * SignBit + x.mantissa \div (ByteValues * ByteValues),
       (x.mantissa \div ByteValues) % ByteValues,
       x.mantissa % ByteValues >>

\* binary.LittleEndian.PutUint32(bs, math.Float32bits(x))
Float32BytesBigEndian(x) == BitsBytes(x)

Float32Bytes(x) ==
    LET b == BitsBytes(x)
    IN  <<b[4], b[3], b[2], b[1]>>

\* math.Float32frombits(binary.LittleEndian.Uint32(bs))
Float32FromBytes(bs) ==
    [sign     |-> bs[4] \div SignBit,
     exponent |-> (bs[4] % SignBit) * 2 + bs[3] \div SignBit,
     mantissa |-> (bs[3] % SignBit) * ByteValues * ByteValues + bs[2] * ByteValues + bs[1]]

\* serializeEmbedding: binary.Write of the slice, element after element
serializeEmbedding(embedding) ==
    [k \in 1 .. Len(embedding) * BytesPerFloat |->
        Float32Bytes(embedding[((k - 1) \div BytesPerFloat) + 1])[((k - 1) % BytesPerFloat) + 1]]

\* deserializeEmbedding: binary.Read into a slice of embeddingDimension
\* elements; it fails when the data ends before the slice is full and does
\* not look at what comes after
deserializeEmbedding(data) ==
    IF Len(data) < EmbeddingDimension * BytesPerFloat
    THEN [err |-> TRUE, embedding |-> <<>>]
    ELSE [err |-> FALSE,
          embedding |-> [i \in 1 .. EmbeddingDimension |->
                            Float32FromBytes(SubSeq(data, (i - 1) * BytesPerFloat + 1,
                                                    i * BytesPerFloat))]]

NoDecoded == [err |-> FALSE, embedding |-> <<>>]

SerialInit ==
    /\ \E n \in {EmbeddingDimension - 1, EmbeddingDimension, EmbeddingDimension + 1} :
       \E offset \in 0 .. Len(Float32s) - 1 : \E stride \in 0 .. MaxStride :
          vector = VectorOf(n, offset, stride)
    /\ blob = <<>>
    /\ decoded = NoDecoded
    /\ serialPc = "serialize"

SerialIdle ==
    /\ vector = <<>>
    /\ blob = <<>>
    /\ decoded = NoDecoded
    /\ serialPc = "done"

AuxIdle == SearchIdle /\ ReceivedIdle /\ SerialIdle

\* IndexDocument, line 156: the embedding of a chunk becomes the BLOB
Serialize ==
    /\ serialPc = "serialize"
    /\ blob' = serializeEmbedding(vector)
    /\ serialPc' = "deserialize"
    /\ UNCHANGED <<vector, decoded>>

\* The BLOB is read back
Deserialize ==
    /\ serialPc = "deserialize"
    /\ decoded' = deserializeEmbedding(blob)
    /\ serialPc' = "done"
    /\ UNCHANGED <<vector, blob>>

----------------------------------------------------------------------------
(* Specifications                                                          *)

ChunkIdle ==
    /\ runes = <<>>
    /\ chunkerArgs = [chunkSize |-> ServiceChunkSize, overlap |-> ServiceOverlap]
    /\ chunkSize = ServiceChunkSize
    /\ overlap = ServiceOverlap
    /\ position = 0
    /\ chunkIndex = 0
    /\ chunks = <<>>
    /\ cpc = "done"

StoreIdle ==
    /\ foreignKeys = FALSE
    /\ documents = {}
    /\ chunkRows = {}
    /\ seqDoc = 0
    /\ seqChunk = 0
    /\ writer = 0
    /\ written = {}

Init == ChunkIdle /\ StoreInit /\ ReqInit /\ EmbedIdle /\ AuxIdle

Next ==
    \/ \E p \in Procs : IndexStart(p)
    \/ \E p \in Procs : IndexCheck(p)
    \/ \E p \in Procs : IndexEmbed(p)
    \/ \E p \in Procs : TxBegin(p)
    \/ \E p \in Procs : TxDelete(p)
    \/ \E p \in Procs : TxInsertDoc(p)
    \/ \E p \in Procs : TxInsertChunk(p)
    \/ \E p \in Procs : TxCommit(p)
    \/ \E p \in Procs : TxFail(p)
    \/ \E p \in Procs : TxRollback(p)
    \/ \E s \in Sources : Delete(s)

Spec == Init /\ [][Next]_vars

ChunkSpecInit == ChunkInit /\ StoreIdle /\ ReqInit /\ EmbedIdle /\ AuxIdle

ChunkNext ==
    \/ ChunkTextEntry /\ UNCHANGED <<storeVars, reqVars, embedVars, auxVars>>
    \/ ChunkTextLoop /\ UNCHANGED <<storeVars, reqVars, embedVars, auxVars>>

ChunkSpec == ChunkSpecInit /\ [][ChunkNext]_vars

NewChunkerSpecInit == NewChunkerInit /\ StoreIdle /\ ReqInit /\ EmbedIdle /\ AuxIdle

NewChunkerNext ==
    \/ NewChunker /\ UNCHANGED <<storeVars, reqVars, embedVars, auxVars>>

NewChunkerSpec == NewChunkerSpecInit /\ [][NewChunkerNext]_vars

EmbedSpecInit == EmbedInit /\ ChunkIdle /\ StoreIdle /\ ReqInit /\ AuxIdle

EmbedNext ==
    \/ EmbedCall /\ UNCHANGED <<chunkVars, storeVars, reqVars, auxVars>>
    \/ EmbedDo /\ UNCHANGED <<chunkVars, storeVars, reqVars, auxVars>>
    \/ BackoffElapsed /\ UNCHANGED <<chunkVars, storeVars, reqVars, auxVars>>
    \/ BackoffCancelled /\ UNCHANGED <<chunkVars, storeVars, reqVars, auxVars>>
    \/ PauseElapsed /\ UNCHANGED <<chunkVars, storeVars, reqVars, auxVars>>
    \/ PauseCancelled /\ UNCHANGED <<chunkVars, storeVars, reqVars, auxVars>>
    \/ Cancel /\ UNCHANGED <<chunkVars, storeVars, reqVars, auxVars>>

EmbedSpec == EmbedSpecInit /\ [][EmbedNext]_vars

SearchSpecInit == SearchInit /\ ChunkIdle /\ ReqInit /\ EmbedIdle /\ ReceivedIdle /\ SerialIdle

SearchNext ==
    \/ Search /\ UNCHANGED <<chunkVars, storeVars, reqVars, embedVars, received, serialVars>>

SearchSpec == SearchSpecInit /\ [][SearchNext]_vars

HandleSearchSpecInit ==
    HandleSearchInit /\ ChunkIdle /\ ReqInit /\ EmbedIdle /\ ReceivedIdle /\ SerialIdle

HandleSearchNext ==
    \/ handleSearch /\ UNCHANGED <<chunkVars, storeVars, reqVars, embedVars, received, serialVars>>
    \/ Search /\ UNCHANGED <<chunkVars, storeVars, reqVars, embedVars, received, serialVars>>

HandleSearchSpec == HandleSearchSpecInit /\ [][HandleSearchNext]_vars

SerialSpecInit ==
    SerialInit /\ ChunkIdle /\ StoreIdle /\ ReqInit /\ EmbedIdle /\ SearchIdle /\ ReceivedIdle

SerialNext ==
    \/ Serialize /\ UNCHANGED <<chunkVars, storeVars, reqVars, embedVars, searchVars, received>>
    \/ Deserialize /\ UNCHANGED <<chunkVars, storeVars, reqVars, embedVars, searchVars, received>>

SerialSpec == SerialSpecInit /\ [][SerialNext]_vars

IndexArgsNext ==
    \/ \E p \in Procs : IndexReceive(p)

IndexArgsSpec == Init /\ [][IndexArgsNext]_vars

----------------------------------------------------------------------------
(* Properties of the store and the orchestrator (Spec)                     *)

\* A step of request p
StepOf(p) == <<pc[p], next[p]>>' # <<pc[p], next[p]>>

\* The statement of request p's transaction that commits it
Commits(p) == pc[p] = "chunks" /\ pc'[p] = "idle" /\ response' = Indexed(p)

StoreUnchanged == documents' = documents /\ chunkRows' = chunkRows

SeqToSet(sq) == {sq[i] : i \in 1 .. Len(sq)}

\* C1: every step of an IndexDocument call other than its successful commit,
\* a failing statement and the rollback included, leaves the committed
\* documents and chunks as they are: a call that fails has changed nothing.
C1_FailedIndexLeavesStore ==
    [][\A p \in Procs :
          (pc[p] \in TxStages \cup {"rollback"} /\ StepOf(p) /\ ~Commits(p)) => StoreUnchanged]_vars

\* A transaction that has deleted the old document of its source and inserted
\* new rows has failed and is about to roll back; the old document is committed.
C1_Witness ==
    \E p \in Procs :
        /\ pc[p] = "rollback"
        /\ writer = p
        /\ next[p] > 1
        /\ \E d \in documents : d.source = req[p].source /\ d \notin tx[p].documents
        /\ \E c \in tx[p].chunkRows : c.document_id = documentID[p]

\* A view is complete: no document and no chunk, or one document together
\* with exactly the chunks its IndexDocument call was given.
CompleteView(v) ==
    \/ v.docs = {} /\ v.rows = {}
    \/ /\ Cardinality(v.docs) = 1
       /\ \A d \in v.docs :
             /\ Cardinality(v.rows) = d.chunk_count
             /\ \E w \in written :
                   /\ w.id = d.id
                   /\ Len(w.chunks) = d.chunk_count
                   /\ {RowAsChunk(c) : c \in v.rows} = SeqToSet(w.chunks)

\* C2: in every state, a transaction in flight or not, what a reader's query
\* finds for a source is complete: never a document with some of its chunks,
\* never chunks of two IndexDocument calls.
C2_ReadersSeeCompleteDocuments == \A s \in Sources : CompleteView(View(s))

\* A reindex has inserted one of its two chunks; readers still find the old
\* document with its chunks.
C2_Witness ==
    \E p \in Procs :
        /\ pc[p] = "chunks"
        /\ writer = p
        /\ next[p] = 2
        /\ Len(args[p]) = 2
        /\ View(req[p].source).rows # {}
        /\ \A d \in View(req[p].source).docs : d.id # documentID[p]

\* C3 (as claimed): every chunk row references an existing document row.
C3_NoChunkOutlivesItsDocument ==
    \A c \in chunkRows : \E d \in documents : d.id = c.document_id

\* The step in which request p makes its existence check (or skips it)
ChecksOut(p) == pc[p] = "check" /\ pc'[p] # "check"

HasDocument(source) == \E d \in documents : d.source = source

\* C4 (as claimed): a request with reindex=false whose source has a document
\* fails with the conflict error naming the source, and nothing else happens.
C4_ExistingSourceIsConflict ==
    [][\A p \in Procs :
          (ChecksOut(p) /\ ~req[p].reindex /\ HasDocument(req[p].source)) =>
              /\ response' = IndexResponse("conflict", req[p].source)
              /\ StoreUnchanged]_vars

\* C4 (amended): a request with reindex=false that reaches its existence
\* check while its source has a document returns from that step with an
\* error, the conflict error naming the source or the error of the existence
\* query; it has made no call to the embedding provider, has opened no
\* transaction, and the documents and chunks are as they were.
C4_ExistingSourceIsRefused ==
    [][\A p \in Procs :
          (ChecksOut(p) /\ ~req[p].reindex /\ HasDocument(req[p].source)) =>
              /\ pc'[p] = "idle"
              /\ response' \in {IndexResponse("conflict", req[p].source),
                                IndexResponse("check_error", "")}
              /\ embedCalls[p] = 0 /\ embedCalls'[p] = 0
              /\ writer' = writer
              /\ StoreUnchanged /\ seqDoc' = seqDoc /\ seqChunk' = seqChunk]_vars

\* A request has just been refused with the conflict error for a source whose
\* document and chunks are in the store.
C4_Witness ==
    /\ response.outcome = "conflict"
    /\ HasDocument(response.source)
    /\ View(response.source).rows # {}

\* C5 (as claimed): the commit of a request with reindex=false never
\* replaces a document of its source.
C5_NoReplaceWithoutReindex ==
    [][\A p \in Procs :
          (Commits(p) /\ ~req[p].reindex) => ~HasDocument(req[p].source)]_vars

\* C5 (amended): a document that the commit of a request with reindex=false
\* replaces was committed after that request's existence check; a document
\* the check could see is never replaced without the opt-in.
C5_ReplacesOnlyLaterDocuments ==
    [][\A p \in Procs :
          (Commits(p) /\ ~req[p].reindex) =>
              \A d \in documents : d.source = req[p].source => d.id > checkSeq[p]]_vars

\* A request with reindex=false has just committed over a document of its
\* source: two requests for a source raced past the existence check.
C5_Witness == lastCommit.source # "" /\ ~lastCommit.reindex /\ lastCommit.replaced

\* The chunks Service.Index computes from a content
ComputedChunks(content) ==
    LET cs == ChunkText(content, ServiceChunkSize, ServiceOverlap).chunks
    IN  StorageChunks(cs, Embed([i \in 1 .. Len(cs) |-> cs[i].Content]))

\* C6: when a request with reindex=true commits for a source that has a
\* document, then afterwards the store has one document for the source, its
\* chunk_count and the chunks a search joins to it are those computed from the
\* new content, and no chunk row of the previous version joins any document.
C6_ReindexReplaces ==
    [][\A p \in Procs :
          (Commits(p) /\ req[p].reindex /\ HasDocument(req[p].source)) =>
              LET s        == req[p].source
                  expected == ComputedChunks(req[p].content)
                  docs     == {d \in documents' : d.source = s}
                  rows     == {c \in chunkRows' : \E d \in docs : c.document_id = d.id}
                  old      == {c \in chunkRows :
                                  \E d \in documents : d.source = s /\ c.document_id = d.id}
              IN  /\ Cardinality(docs) = 1
                  /\ \A d \in docs : d.chunk_count = Len(expected)
                  /\ Cardinality(rows) = Len(expected)
                  /\ {RowAsChunk(c) : c \in rows} = SeqToSet(expected)
                  /\ old # {}
                  /\ \A c \in old : \A d \in documents' : c.document_id # d.id]_vars

\* A reindex has just committed over a document of its source.
C6_Witness == lastCommit.source # "" /\ lastCommit.reindex /\ lastCommit.replaced

\* C7: no two committed documents have the same source.
C7_SourceIsUnique ==
    \A s \in Sources : Cardinality({d \in documents : d.source = s}) <= 1

\* Both sources are indexed, one of them by a commit that has just replaced
\* its previous document.
C7_Witness ==
    /\ lastCommit.replaced
    /\ \A s \in Sources : HasDocument(s)
    /\ seqDoc >= 3

----------------------------------------------------------------------------
(* Properties of the chunker (ChunkSpec)                                   *)

\* C8 (as claimed): the window position strictly increases from one chunk to
\* the next, so that the loop of ChunkText reaches the end of the text.
C8_PositionStrictlyIncreases ==
    [][(cpc = "loop" /\ cpc' = "loop") => position' > position]_vars

\* The span of chunk i, less what it shares with the chunk before it
NewPart(cs, i) ==
    LET shared == IF i = 1 THEN 0 ELSE cs[i - 1].EndOffset - cs[i].StartOffset
        content == cs[i].Content
    IN  IF shared >= Len(content) THEN <<>> ELSE SubSeq(content, shared + 1, Len(content))

RECURSIVE Reconstructed(_, _)
Reconstructed(cs, n) == IF n = 0 THEN <<>> ELSE Reconstructed(cs, n - 1) \o NewPart(cs, n)

\* C9: the chunks ChunkText returns for a non-empty text start at offset 0,
\* end at the length of the text, each next chunk starts at or before the end
\* of the previous one, and the spans less their overlaps are the text.
C9_ChunksCoverText ==
    (cpc = "done" /\ runes # <<>>) =>
        /\ Len(chunks) >= 1
        /\ chunks[1].StartOffset = 0
        /\ chunks[Len(chunks)].EndOffset = Len(runes)
        /\ \A i \in 1 .. Len(chunks) - 1 :
              /\ chunks[i + 1].StartOffset <= chunks[i].EndOffset
              /\ chunks[i + 1].StartOffset >= 0
        /\ \A i \in 1 .. Len(chunks) :
              chunks[i].Content = Slice(runes, chunks[i].StartOffset, chunks[i].EndOffset)
        /\ Reconstructed(chunks, Len(chunks)) = runes

\* ChunkText has returned three or more chunks, two of which overlap.
C9_Witness ==
    /\ cpc = "done"
    /\ Len(chunks) >= 3
    /\ overlap > 0
    /\ \E i \in 1 .. Len(chunks) - 1 : chunks[i + 1].StartOffset < chunks[i].EndOffset

\* C10: every chunk ChunkText has produced, in a call that returns or not,
\* is non-empty and has at most chunkSize code points.
C10_ChunksWithinSize ==
    \A i \in 1 .. Len(chunks) :
        /\ chunks[i].StartOffset < chunks[i].EndOffset
        /\ chunks[i].EndOffset - chunks[i].StartOffset <= chunkSize
        /\ Len(chunks[i].Content) = chunks[i].EndOffset - chunks[i].StartOffset

\* ChunkText has returned a chunk cut at a word boundary, shorter than
\* chunkSize, followed by a chunk of the full chunkSize.
C10_Witness ==
    /\ cpc = "done"
    /\ \E i \in 1 .. Len(chunks) - 1 :
          /\ chunks[i].EndOffset - chunks[i].StartOffset < chunkSize
          /\ IsSpace(RuneAt(runes, chunks[i].EndOffset - 1))
          /\ chunks[i + 1].EndOffset - chunks[i + 1].StartOffset = chunkSize

\* C11: each next chunk starts overlap code points before the end of the
\* previous one, at 0 if that is negative; with overlap > 0 the two overlap.
C11_ConsecutiveChunksOverlap ==
    \A i \in 1 .. Len(chunks) - 1 :
        /\ chunks[i + 1].StartOffset =
              (IF chunks[i].EndOffset - overlap < 0 THEN 0 ELSE chunks[i].EndOffset - overlap)
        /\ overlap > 0 => chunks[i].EndOffset > chunks[i + 1].StartOffset

\* ChunkText has returned exactly two chunks that share two code points.
C11_Witness ==
    /\ cpc = "done"
    /\ Len(chunks) = 2
    /\ overlap = 2
    /\ chunks[1].EndOffset - chunks[2].StartOffset = 2

\* The raw window end of chunk i, and the whitespace positions the backward
\* scan from it covers: the last min(chunkSize, 100) positions, none before
\* the start of the chunk.
RawEnd(i) == chunks[i].StartOffset + chunkSize

ScannedWhitespace(i) ==
    LET back == IF chunkSize < MaxScanBack THEN chunkSize ELSE MaxScanBack
        lo   == IF RawEnd(i) - back < chunks[i].StartOffset
                THEN chunks[i].StartOffset ELSE RawEnd(i) - back
    IN  {k \in lo .. RawEnd(i) - 1 : k < Len(runes) /\ IsSpace(RuneAt(runes, k))}

\* C12: a chunk that does not end at the end of the text ends just past a
\* whitespace run if the scanned part of its window has whitespace (whitespace
\* before the end, none at the end unless the end is the raw window end), and
\* at the raw window end if it has none.
C12_ChunksEndOnWordBoundaries ==
    \A i \in 1 .. Len(chunks) :
        chunks[i].EndOffset < Len(runes) =>
            IF ScannedWhitespace(i) # {}
            THEN /\ chunks[i].EndOffset - 1 \in ScannedWhitespace(i)
                 /\ \/ chunks[i].EndOffset = RawEnd(i)
                    \/ ~IsSpace(RuneAt(runes, chunks[i].EndOffset))
            ELSE chunks[i].EndOffset = RawEnd(i)

\* ChunkText with a chunkSize above 100 has returned a chunk that holds a
\* whitespace the scan did not reach, cut at the raw window end.
C12_Witness ==
    /\ cpc = "done"
    /\ chunkSize > MaxScanBack
    /\ \E i \in 1 .. Len(chunks) :
          /\ chunks[i].EndOffset < Len(runes)
          /\ chunks[i].EndOffset = RawEnd(i)
          /\ \E k \in chunks[i].StartOffset .. chunks[i].EndOffset - 1 :
                IsSpace(RuneAt(runes, k))

\* Offset k lies between two non-whitespace code points
SplitsWord(k) ==
    /\ 0 < k
    /\ k < Len(runes)
    /\ ~IsSpace(RuneAt(runes, k - 1))
    /\ ~IsSpace(RuneAt(runes, k))

AllWindowsHaveWhitespace ==
    \A i \in 1 .. Len(chunks) :
        chunks[i].EndOffset < Len(runes) => ScannedWhitespace(i) # {}

C14_IndexesAndContents ==
    \A i \in 1 .. Len(chunks) :
        /\ chunks[i].Index = i - 1
        /\ Len(chunks[i].Content) = chunks[i].EndOffset - chunks[i].StartOffset
        /\ \A k \in 1 .. Len(chunks[i].Content) :
              chunks[i].Content[k] = runes[chunks[i].StartOffset + k]

\* ChunkText has returned four or more chunks of a text with a multi-byte
\* code point.
C14_Witness ==
    /\ cpc = "done"
    /\ Len(chunks) >= 4
    /\ \E k \in 1 .. Len(runes) : runes[k] = "U"

----------------------------------------------------------------------------
(* Properties of the embeddings client (EmbedSpec)                         *)

IsCall(k) == k \in 1 .. Len(log) /\ log[k].ev = "call"

EmbedSucceeded == embedResult.returned /\ embedResult.err = ""

EmbedFailed ==
    /\ embedPc = "done"
    /\ embedResult.returned
    /\ embedResult.err # ""
    /\ embedResult.vectors = <<>>

\* C15: a successful Embed returns one vector per input, the i-th being the
\* vector the provider tagged for the i-th text, whatever the order of the
\* items in each response; the empty input succeeds without a provider call.
C15_EmbedPreservesOrder ==
    /\ EmbedSucceeded =>
          /\ Len(embedResult.vectors) = Len(texts)
          /\ \A j \in 1 .. Len(texts) :
                embedResult.vectors[j] = Vector(texts[j], EmbeddingDimension)
    /\ (embedPc = "done" /\ texts = <<>>) =>
          EmbedSucceeded /\ embedResult.vectors = <<>> /\ log = <<>>

\* Embed has succeeded on three batches whose responses came reversed and
\* rotated.
C15_Witness ==
    /\ EmbedSucceeded
    /\ Len(texts) > 2 * MaxBatchSize
    /\ \E k \in 1 .. Len(log) : log[k].order = "reversed"
    /\ \E k \in 1 .. Len(log) : log[k].order = "rotated"

\* C16: a response with a vector of a length other than 1536, or without an
\* item for a position of the batch, is the last call of the Embed call,
\* which fails and returns no vector, those of earlier batches included.
C16_BadResponseFailsTheCall ==
    \A k \in 1 .. Len(log) :
        (IsCall(k) /\ log[k].status = 200 /\ log[k].body = "data"
                   /\ log[k].defect \in {"dimension", "missing"}) =>
            k = Len(log) /\ EmbedFailed

\* Embed has failed on a short vector in the response for the third batch.
C16_Witness ==
    /\ EmbedFailed
    /\ Len(log) > 0
    /\ log[Len(log)].defect = "dimension"
    /\ log[Len(log)].from = 2 * MaxBatchSize
    /\ Len(allEmbeddings) = 2 * MaxBatchSize

\* C17: at most 3 calls per batch; a call after the first of a batch follows
\* a rate-limit response to the previous one and a completed wait of 1 second
\* (second attempt) or 2 seconds (third attempt); a third rate-limit response
\* ends the Embed call with an error.
C17_BoundedRetry ==
    /\ \A k \in 1 .. Len(log) : IsCall(k) =>
          /\ log[k].attempt < 3
          /\ Cardinality({m \in 1 .. Len(log) : IsCall(m) /\ log[m].from = log[k].from}) <= 3
          /\ log[k].attempt > 0 =>
                /\ k >= 3
                /\ log[k - 1].ev = "backoff"
                /\ log[k - 1].completed
                /\ log[k - 1].ms = (IF log[k].attempt = 1 THEN 1000 ELSE 2000)
                /\ IsCall(k - 2)
                /\ log[k - 2].from = log[k].from
                /\ log[k - 2].attempt = log[k].attempt - 1
                /\ log[k - 2].status = 429
          /\ (log[k].attempt = 2 /\ log[k].status = 429) => k = Len(log) /\ EmbedFailed

\* Embed has failed after three rate-limit responses for its second batch.
C17_Witness ==
    /\ EmbedFailed
    /\ Len(log) >= 6
    /\ log[Len(log)].attempt = 2
    /\ log[Len(log)].status = 429
    /\ log[Len(log)].from = MaxBatchSize

\* A call that met a transport error
TransportError(k) == IsCall(k) /\ log[k].status = 0

\* A response in which the provider reports an error other than a rate limit
ProviderError(k) ==
    /\ IsCall(k)
    /\ log[k].status \notin {0, 429}
    /\ log[k].status # 200 \/ log[k].body = "error"

\* C18 (as claimed): a transport error or a provider-reported error other
\* than a rate limit ends the Embed call at once with an error, and for a
\* provider-reported error that error carries the provider's message and type.
C18_ErrorsCarryMessageAndType ==
    \A k \in 1 .. Len(log) :
        /\ (TransportError(k) \/ ProviderError(k)) => k = Len(log) /\ EmbedFailed
        /\ ProviderError(k) => embedResult.message = "msg" /\ embedResult.type = "typ"

\* C18 (amended): a transport error or a provider-reported error other than a
\* rate limit ends the Embed call at once with an error and no vectors; the
\* error carries the provider's message and type when the response body is
\* JSON with an error object.
C18_ErrorsAbortTheCall ==
    \A k \in 1 .. Len(log) :
        /\ (TransportError(k) \/ ProviderError(k)) => k = Len(log) /\ EmbedFailed
        /\ (ProviderError(k) /\ log[k].body = "error") =>
              /\ embedResult.err = "api"
              /\ embedResult.message = "msg"
              /\ embedResult.type = "typ"

\* Embed has failed on an error object in the response for its second batch,
\* without a retry.
C18_Witness ==
    /\ EmbedFailed
    /\ Len(log) = 3
    /\ ProviderError(3)
    /\ log[3].body = "error"
    /\ log[3].from = MaxBatchSize
    /\ Len(allEmbeddings) = MaxBatchSize

\* C19: the step that ends a backoff or a pause during which ctx was
\* cancelled returns the cancellation error: the wait is not completed and no
\* provider call follows.
C19_WaitsAreCancellable ==
    [][(embedPc \in {"backoff", "pause"} /\ cancelled /\ embedPc' # embedPc) =>
          /\ embedPc' = "done"
          /\ embedResult'.returned
          /\ embedResult'.err = "cancelled"
          /\ embedResult'.vectors = <<>>
          /\ Len(log') = Len(log) + 1
          /\ log'[Len(log')].ev = embedPc
          /\ ~log'[Len(log')].completed
          /\ SubSeq(log', 1, Len(log)) = log]_vars

\* Embed was cancelled in the backoff before a second attempt for its second
\* batch.
C19_Witness ==
    /\ embedPc = "done"
    /\ embedResult.err = "cancelled"
    /\ Len(log) = 4
    /\ log[4].ev = "backoff"
    /\ ~log[4].completed
    /\ log[2].ev = "pause"

\* C20 (as claimed): every provider call carries between 1 and 100 texts, the
\* next slice of the input; a batch is submitted after the one before it
\* succeeded and a completed pause of 100 ms; there is a pause only after a
\* batch that is not the last, and a successful Embed has submitted all texts.
C20_Batching ==
    /\ \A k \in 1 .. Len(log) : IsCall(k) =>
          /\ log[k].carried >= 1
          /\ log[k].carried <= 100
          /\ log[k].carried = log[k].to - log[k].from
          /\ log[k].from % 100 = 0
          /\ log[k].to = (IF log[k].from + 100 < Len(texts)
                          THEN log[k].from + 100 ELSE Len(texts))
          /\ (log[k].attempt = 0 /\ log[k].from = 0) => k = 1
          /\ (log[k].attempt = 0 /\ log[k].from > 0) =>
                /\ k >= 3
                /\ log[k - 1].ev = "pause"
                /\ log[k - 1].completed
                /\ log[k - 1].ms = 100
                /\ IsCall(k - 2)
                /\ log[k - 2].from = log[k].from - 100
                /\ log[k - 2].status = 200
                /\ log[k - 2].defect = "none"
    /\ \A k \in 1 .. Len(log) : log[k].ev = "pause" =>
          /\ k >= 2
          /\ IsCall(k - 1)
          /\ log[k - 1].to < Len(texts)
    /\ (EmbedSucceeded /\ texts # <<>>) =>
          /\ log[Len(log)].ev = "call"
          /\ log[Len(log)].to = Len(texts)


----------------------------------------------------------------------------
(* Properties of the search request (SearchSpec)                           *)

\* Service.Search has returned a result list
SearchReturned == searchPc = "done" /\ searchResult.err = "none"

\* The chunks the request ranks, with their scores
Ranked == ScoredRows(ReaderTables, searchReq.Query, searchReq.SourceFilter)

\* C21: the result is in non-increasing score order, has at most topK
\* entries, and is a prefix of a ranking of the candidates (those left by the
\* source filter) by descending score: it holds exactly the candidates at
\* positions 1 .. topK of that ranking whose score is at least minScore, so a
\* candidate that more than topK - 1 others outscore is never returned.
C21_MinScoreInsideTopK ==
    SearchReturned =>
        LET rs == searchResult.Results
            k  == EffectiveTopK(searchReq.TopK)
        IN  /\ \A i, j \in DOMAIN rs : i < j => rs[i].Score >= rs[j].Score
            /\ Len(rs) <= k
            /\ searchResult.Count = Len(rs)
            /\ \E r \in Rankings(Ranked) :
                   /\ Len(rs) <= Len(r)
                   /\ rs = SubSeq(r, 1, Len(rs))
                   /\ \A i \in DOMAIN r :
                         (i <= Len(rs)) <=> (i <= k /\ r[i].Score >= searchReq.MinScore)
            /\ \A x \in SeqToSet(rs) :
                   Cardinality({c \in Ranked : c.Score > x.Score}) < k

\* A search that returned a chunk and left out another, of a score that
\* passes min_score, because it ranks below topK
C21_Witness ==
    /\ SearchReturned
    /\ searchResult.Results # <<>>
    /\ \E c \in Ranked :
          /\ c.Score >= searchReq.MinScore
          /\ c \notin SeqToSet(searchResult.Results)

\* C22: with a source filter every result is of that source, and the topK
\* positions go to chunks of that source alone: the result has as many
\* entries as topK and the number of the source's chunks that pass min_score
\* allow, whatever the other sources' chunks score.
C22_FilterBeforeTopK ==
    (SearchReturned /\ searchReq.SourceFilter # "") =>
        LET rs    == searchResult.Results
            k     == EffectiveTopK(searchReq.TopK)
            docs  == {d \in ReaderTables.documents : d.source = searchReq.SourceFilter}
            own   == {c \in JoinedChunks(ReaderTables.chunkRows, docs) :
                         Score(c.embedding, searchReq.Query) >= searchReq.MinScore}
        IN  /\ \A i \in DOMAIN rs : rs[i].Source = searchReq.SourceFilter
            /\ Len(rs) = Min(k, Cardinality(own))

\* A filtered search that filled all topK positions with chunks of its source
\* while a chunk of another source scores higher than one it returned
C22_Witness ==
    /\ SearchReturned
    /\ searchReq.SourceFilter # ""
    /\ Len(searchResult.Results) = searchReq.TopK
    /\ \E x \in SeqToSet(searchResult.Results) :
          \E pr \in CandidatesUnfiltered(ReaderTables, "") :
             /\ pr[2].source # searchReq.SourceFilter
             /\ Score(pr[1].embedding, searchReq.Query) > x.Score


----------------------------------------------------------------------------
(* Properties of delete and of failed index requests (Spec)                *)

\* A step that starts no index request and is of none: a call of
\* Service.Delete
DeleteStep == started' = started /\ \A p \in Procs : ~StepOf(p)

\* C23: every call of delete returns a DeleteResponse for its source.  It
\* says deleted exactly when the source had a document before the call and
\* has none after it, and then only that document row is gone; in every
\* other case (no such document, or the statement failed) it says not
\* deleted and the documents and chunks are as before.
C23_DeleteAlwaysResponds ==
    [][DeleteStep =>
          /\ response'.op = "delete"
          /\ response'.source \in Sources
          /\ response'.outcome \in {"deleted", "not_deleted"}
          /\ (response'.outcome = "deleted") <=>
                (/\ HasDocument(response'.source)
                 /\ ~\E d \in documents' : d.source = response'.source)
          /\ response'.outcome = "deleted" =>
                documents' = {d \in documents : d.source # response'.source}
          /\ response'.outcome = "not_deleted" => StoreUnchanged
          /\ ~HasDocument(response'.source) => response'.outcome = "not_deleted"
      ]_vars

\* A delete has just removed the document of its source while the other
\* source keeps its own
C23_Witness ==
    /\ response.op = "delete"
    /\ response.outcome = "deleted"
    /\ ~HasDocument(response.source)
    /\ \E d \in documents : d.source # response.source


\* ListDocuments: the sources of the rows it returns when no source_type is given
ListedSources == {d.source : d \in ReaderTables.documents}

\* What the readers say of a source that is not indexed: DocumentExists is
\* false, ListDocuments has no row of it, and Database.Search ranks no chunk
\* of it, with any source filter or none
Absent(s) ==
    /\ ~DocumentExists(s)
    /\ s \notin ListedSources
    /\ \A filter \in {""} \cup Sources :
          \A pr \in Candidates(ReaderTables, filter) : pr[2].source # s

\* C24: a delete that says deleted leaves no document row of its source; a
\* source gets a document row only by the commit of an index request for it;
\* as long as it has none it is absent for every reader; and an index request
\* for it with reindex=false then passes the existence check without the
\* conflict error.
C24_DeletedSourceIsGone ==
    /\ [](\A s \in Sources : ~HasDocument(s) => Absent(s))
    /\ [][/\ (DeleteStep /\ response'.outcome = "deleted") =>
               \A s \in Sources : response'.source = s => ~HasDocument(s)'
          /\ \A s \in Sources :
               (~HasDocument(s) /\ HasDocument(s)') =>
                   \E p \in Procs : Commits(p) /\ req[p].source = s
          /\ \A p \in Procs :
               (ChecksOut(p) /\ ~req[p].reindex /\ ~HasDocument(req[p].source)) =>
                   response'.outcome # "conflict"
         ]_vars

\* A request with reindex=false has just passed the existence check for a
\* source that was deleted and whose chunks are still in the chunks table
C24_Witness ==
    \E p \in Procs :
        /\ pc[p] = "embed"
        /\ ~req[p].reindex
        /\ Absent(req[p].source)
        /\ checkSeq[p] > 0
        /\ chunkRows # {}
        /\ documents = {}


----------------------------------------------------------------------------
(* Properties of the arguments of an index request (IndexArgsSpec)         *)

\* The ways of naming the content that request r supplies
Supplied(r) ==
    {w \in {"file_path", "url", "content"} :
        \/ w = "file_path" /\ r.FilePath # ""
        \/ w = "url" /\ r.URL # ""
        \/ w = "content" /\ r.Content # <<>> /\ r.Source # ""}

\* C25: an index request is answered with the validation error exactly when
\* it supplies none or more than one of file_path, url and content with
\* source; such a request reads no file and fetches nothing, is over with
\* that step (it never comes to the existence check, the embedding call or
\* the transaction) and leaves the store as it was.
C25_ExactlyOneSource ==
    [][started' > started =>
          LET r == received'.request
          IN  /\ (response' = IndexResponse("validation_error", "")) <=>
                    (Cardinality(Supplied(r)) # 1)
              /\ Cardinality(Supplied(r)) # 1 =>
                    /\ received'.io = NoIO
                    /\ pc' = pc
                    /\ embedCalls' = embedCalls
                    /\ tx' = tx
                    /\ UNCHANGED storeVars
      ]_vars

\* A request that gives a file path and a URL together, or content without
\* a source, has just been rejected
C25_Witness ==
    /\ response = IndexResponse("validation_error", "")
    /\ \/ received.request.FilePath # "" /\ received.request.URL # ""
       \/ /\ received.request.Content # <<>>
          /\ received.request.Source = ""
          /\ Supplied(received.request) = {}


----------------------------------------------------------------------------
(* Properties of index requests that fail (Spec)                           *)

\* The content of request p yields no chunk
YieldsNoChunks(p) ==
    LET chunked == ChunkText(req[p].content, ServiceChunkSize, ServiceOverlap)
    IN  chunked.returns /\ chunked.chunks = <<>>

C27_FailedRequestCommitsNothing ==
    [][/\ started' > started =>
            /\ StoreUnchanged /\ writer' = writer /\ tx' = tx
            /\ (\A p \in Procs : pc'[p] = pc[p]) =>
                   /\ response'.op = "index"
                   /\ response'.outcome \in {"validation_error", "fetch_error"}
       /\ \A p \in Procs :
            (StepOf(p) /\ pc[p] \in {"check", "embed"}) =>
                /\ StoreUnchanged /\ writer' = writer /\ tx'[p] = NoTx
                /\ pc'[p] = "idle" =>
                      /\ response'.op = "index"
                      /\ pc[p] = "check" =>
                            response'.outcome \in {"check_error", "conflict", "no_chunks"}
                      /\ pc[p] = "embed" =>
                            response'.outcome \in {"embed_error", "count_mismatch"}
      ]_vars

\* A request has just failed in the embedding call while another request is
\* in the middle of its transaction and a document is in the store
C27_Witness ==
    /\ response = IndexResponse("embed_error", "")
    /\ documents # {}
    /\ writer # 0


----------------------------------------------------------------------------
(* Properties of concurrent calls (Spec)                                   *)

\* What the store holds for a source: its document rows and the chunk rows
\* that belong to them
Holds(s) ==
    LET docs == {d \in documents : d.source = s}
    IN  [docs |-> docs, rows |-> {c \in chunkRows : \E d \in docs : c.document_id = d.id}]

\* C28: what the store holds for a source changes only when an IndexDocument
\* call for the source commits or a delete of the source succeeds, whatever
\* other calls for the source are under way.  After the commit it is exactly
\* one document, the one the call inserted, with exactly the chunks the call
\* was given; after the delete it is nothing.  So it is always nothing or
\* the whole of what the last call to commit wrote, never a mix of two calls.
C28_LastCommitWins ==
    [][StoreUnchanged \/
       \A s \in Sources :
          /\ \A p \in Procs :
                (Commits(p) /\ req[p].source = s) =>
                    /\ Cardinality(Holds(s).docs') = 1
                    /\ \A d \in Holds(s).docs' :
                          d.id = documentID[p] /\ d.chunk_count = Len(args[p])
                    /\ {RowAsChunk(c) : c \in Holds(s).rows'} = SeqToSet(args[p])
                    /\ Cardinality(Holds(s).rows') = Len(args[p])
          /\ (DeleteStep /\ response' = DeleteResponse(s, TRUE)) =>
                Holds(s)' = [docs |-> {}, rows |-> {}]
          /\ (/\ ~\E p \in Procs : Commits(p) /\ req[p].source = s
              /\ ~(DeleteStep /\ response' = DeleteResponse(s, TRUE))) =>
                Holds(s)' = Holds(s)
      ]_vars

\* Two calls for one source ran side by side, both past the existence check:
\* the second has just committed over the document the first committed
C28_Witness ==
    /\ lastCommit.replaced
    /\ ~lastCommit.reindex
    /\ Cardinality(Holds(lastCommit.source).docs) = 1
    /\ \E c \in chunkRows : c \notin Holds(lastCommit.source).rows


\* The step is of an operation on source a: a step of an index request
\* resolved to a, or a delete of a
ActsOn(a) ==
    \/ \E p \in Procs : StepOf(p) /\ (req[p].source = a \/ req'[p].source = a)
    \/ DeleteStep /\ response'.op = "delete" /\ response'.source = a

\* C29: a step of an index request or of a delete for one source, whether
\* the operation succeeds or fails, leaves what the store holds for every
\* other source as it is: the same document row with the same id and
\* counts, the same chunk rows with the same ids.
C29_OtherSourcesUntouched ==
    [][StoreUnchanged \/
       \A a \in Sources : \A b \in Sources \ {a} :
          ActsOn(a) => Holds(b)' = Holds(b)
      ]_vars

\* A request has just replaced the document of its source while the other
\* source holds a document and chunks indexed in between
C29_Witness ==
    /\ response.op = "index"
    /\ response.outcome = "ok"
    /\ lastCommit.replaced
    /\ \E b \in Sources \ {response.source} :
          /\ Holds(b).rows # {}
          /\ \E d \in Holds(b).docs : \E e \in Holds(response.source).docs : d.id < e.id


----------------------------------------------------------------------------
(* Properties of the serialization (SerialSpec)                            *)

\* C30: the blob of a vector of embeddingDimension elements has four bytes
\* for each element, and reading it back succeeds and gives a vector of the
\* same length whose every element is the element of the original.
C30_SerializationRoundTrip ==
    Len(vector) = EmbeddingDimension =>
        /\ serialPc # "serialize" => Len(blob) = EmbeddingDimension * BytesPerFloat
        /\ serialPc = "done" =>
              /\ ~decoded.err
              /\ Len(decoded.embedding) = Len(vector)
              /\ \A i \in 1 .. Len(vector) : decoded.embedding[i] = vector[i]

\* A vector of embeddingDimension elements, not all the same and with a
\* negative one among them, has been written and read back
C30_Witness ==
    /\ serialPc = "done"
    /\ Len(vector) = EmbeddingDimension
    /\ \E i, j \in 1 .. Len(vector) : vector[i] # vector[j] /\ vector[i].sign = 1
    /\ ~decoded.err

\* C31: reading back a blob whose length is not EmbeddingDimension *
\* BytesPerFloat bytes, shorter or longer, returns an error and no vector.
C31_WrongLengthIsAnError ==
    (serialPc = "done" /\ Len(blob) # EmbeddingDimension * BytesPerFloat) =>
        /\ decoded.err
        /\ decoded.embedding = <<>>

----------------------------------------------------------------------------
(* Properties of the stored rows (Spec)                                    *)

\* The chunk rows that reference document d
RowsOf(d) == {c \in chunkRows : c.document_id = d.id}

\* The sum over a set of chunk rows of end_offset - start_offset
RECURSIVE CharsOf(_)
CharsOf(rows) ==
    IF rows = {} THEN 0
    ELSE LET c == CHOOSE x \in rows : TRUE
         IN  (c.end_offset - c.start_offset) + CharsOf(rows \ {c})

\* C32 (as claimed): the content_size of every committed document is the sum
\* over its chunk rows of the content length in code points, that is of
\* end_offset - start_offset.
C32_ContentSizeInCharacters ==
    \A d \in documents : d.content_size = CharsOf(RowsOf(d))

----------------------------------------------------------------------------
(* Properties of the search tool (HandleSearchSpec)                        *)

\* C33: the call of the store's search made for a call of the search tool
\* has top_k 5 when the tool was given a top_k <= 0 and the given top_k
\* otherwise, and min_score 0.3 when none was given and the given min_score,
\* 0 included, otherwise; the call is made unless the query is empty or its
\* embedding fails.
C33_SearchDefaults ==
    /\ dbSearch.called =>
          /\ dbSearch.topK = IF searchArgs.TopK <= 0 THEN DefaultTopK ELSE searchArgs.TopK
          /\ dbSearch.minScore = IF searchArgs.MinScore.nil THEN DefaultMinScore
                                 ELSE searchArgs.MinScore.value
          /\ dbSearch.sourceFilter = searchArgs.SourceFilter
    /\ (searchPc = "done" /\ searchArgs # NoSearchArgs) =>
          (dbSearch.called <=> (searchArgs.Query # "" /\ searchResult.err # "embed"))

\* The store has been searched for a call that gave min_score 0 and a
\* negative top_k and returned a chunk of a score below 0.3
C33_Witness ==
    /\ dbSearch.called
    /\ ~searchArgs.MinScore.nil
    /\ searchArgs.MinScore.value = 0
    /\ searchArgs.TopK < 0
    /\ \E i \in DOMAIN searchResult.Results : searchResult.Results[i].Score < DefaultMinScore

\* C34 (as claimed): every score a search returns is between 0 and 1.
C34_ScoresInUnitInterval ==
    SearchReturned =>
        \A i \in DOMAIN searchResult.Results :
            /\ searchResult.Results[i].Score >= 0
            /\ searchResult.Results[i].Score <= ScoreOne

----------------------------------------------------------------------------
(* Further properties of the chunker (ChunkSpec)                           *)

\* C35: ChunkText of the empty text returns no chunk, and ChunkText of a
\* text of at most chunkSize code points returns one chunk: index 0, from
\* offset 0 to the number of code points, its content the whole text.
C35_EmptyAndSmallTexts ==
    cpc = "done" =>
        /\ runes = <<>> => chunks = <<>>
        /\ (runes # <<>> /\ Len(runes) <= chunkSize) =>
              /\ Len(chunks) = 1
              /\ chunks[1].Index = 0
              /\ chunks[1].StartOffset = 0
              /\ chunks[1].EndOffset = Len(runes)
              /\ chunks[1].Content = runes

\* ChunkText has returned for a text of exactly chunkSize code points, one
\* of them of several bytes and one a whitespace
C35_Witness ==
    /\ cpc = "done"
    /\ Len(runes) = chunkSize
    /\ \E i, j \in DOMAIN runes : runes[i] = "U" /\ runes[j] = " "
    /\ Len(chunks) = 1

\* C36: the chunker NewChunker returns has chunkSize 1000 when the argument
\* is <= 0 and the argument otherwise; its overlap is 0 when the argument is
\* negative, half of that chunkSize when the argument is not below that
\* chunkSize, and the argument otherwise; so chunkSize > 0 and
\* 0 <= overlap < chunkSize.
C36_NewChunkerCoerces ==
    cpc # "new" =>
        /\ chunkSize = IF chunkerArgs.chunkSize <= 0 THEN DefaultChunkSize
                       ELSE chunkerArgs.chunkSize
        /\ overlap = IF chunkerArgs.overlap < 0 THEN 0
                     ELSE IF chunkerArgs.overlap >= chunkSize THEN chunkSize \div 2
                     ELSE chunkerArgs.overlap
        /\ chunkSize > 0
        /\ 0 <= overlap
        /\ overlap < chunkSize

\* NewChunker has replaced a chunkSize <= 0 by the default and cut an
\* overlap of more than the default to its half
C36_Witness ==
    /\ cpc = "done"
    /\ chunkerArgs.chunkSize <= 0
    /\ chunkerArgs.overlap > DefaultChunkSize
    /\ chunkSize = DefaultChunkSize
    /\ overlap = DefaultChunkSize \div 2

----------------------------------------------------------------------------
(* Further properties of the embeddings client (EmbedSpec)                 *)

\* C37 (as claimed): an attempt that follows a rate-limit response carries
\* the texts the first attempt for its batch carried, all of the batch; and
\* when the last call of the last batch got a valid response, Embed has
\* succeeded with one vector per text.
C37_RetrySubmitsTheSameBatch ==
    /\ \A k \in 1 .. Len(log) : (IsCall(k) /\ log[k].attempt > 0) =>
          \E j \in 1 .. k - 1 :
             /\ IsCall(j)
             /\ log[j].from = log[k].from
             /\ log[j].attempt = 0
             /\ log[j].status = 429
             /\ log[j].carried = log[j].to - log[j].from
             /\ log[k].carried = log[j].carried
    /\ \A k \in 1 .. Len(log) :
          (/\ IsCall(k)
           /\ embedPc = "done"
           /\ k = Len(log)
           /\ log[k].to = Len(texts)
           /\ log[k].status = 200
           /\ log[k].body = "data"
           /\ log[k].defect = "none") =>
              /\ EmbedSucceeded
              /\ Len(embedResult.vectors) = Len(texts)

----------------------------------------------------------------------------
(* Further properties of index requests (Spec)                             *)

\* C38: when an index request has committed, the source has one document
\* and, for every i, one chunk row of it with chunk_index i, which has the
\* content and the offsets of the i-th chunk ChunkText gives for the
\* request's content and the embedding the provider returns for that
\* content; the document has no other chunk row, and the response's
\* chunk_count is the number of these rows.
C38_StoredChunksMatchTheChunker ==
    lastCommit.source # "" =>
        LET cs   == ChunkText(lastCommit.content, ServiceChunkSize, ServiceOverlap).chunks
            docs == {d \in documents : d.source = lastCommit.source}
        IN  /\ Cardinality(docs) = 1
            /\ response.outcome = "ok"
            /\ response.source = lastCommit.source
            /\ response.chunk_count = Len(cs)
            /\ \A d \in docs :
                  /\ Cardinality(RowsOf(d)) = Len(cs)
                  /\ \A i \in 1 .. Len(cs) :
                        \E c \in RowsOf(d) :
                           /\ c.chunk_index = i - 1
                           /\ c.chunk_index = cs[i].Index
                           /\ c.content = cs[i].Content
                           /\ c.start_offset = cs[i].StartOffset
                           /\ c.end_offset = cs[i].EndOffset
                           /\ c.embedding = EmbeddingOf(cs[i].Content)

\* A request whose content gives two chunks of different text has committed
\* in place of an earlier document of its source
C38_Witness ==
    /\ lastCommit.source # ""
    /\ lastCommit.replaced
    /\ response.chunk_count = 2
    /\ \E c1, c2 \in chunkRows :
          /\ c1.document_id = c2.document_id
          /\ c1.content # c2.content
          /\ \E d \in documents : d.id = c1.document_id /\ d.source = lastCommit.source

\* C39: in every committed state, every document has as many chunk rows
\* referencing it as its chunk_count says, and among them exactly one of
\* every chunk_index from 0 to chunk_count - 1.
C39_ChunkCountMatchesRows ==
    \A d \in documents :
        /\ Cardinality(RowsOf(d)) = d.chunk_count
        /\ \A i \in 0 .. d.chunk_count - 1 :
              Cardinality({c \in RowsOf(d) : c.chunk_index = i}) = 1

\* After an index, a reindex and a delete, chunk rows of deleted documents
\* are left in the table next to a document of two chunks
C39_Witness ==
    /\ seqDoc >= 3
    /\ \E d \in documents : d.chunk_count = 2
    /\ Cardinality(documents) = 1
    /\ \E c \in chunkRows : \A d \in documents : c.document_id # d.id

----------------------------------------------------------------------------
(* Further properties of the provider response (EmbedSpec)                 *)

\* C40 (as claimed): a response with an item whose index is outside the
\* batch, the batch size or more, or negative, is the last call of the Embed
\* call, which returns an error and no vector; no Embed call ends in a
\* run-time panic.
C40_IndexOutsideBatchIsAnError ==
    /\ embedPc # "panicked"
    /\ \A k \in 1 .. Len(log) :
          (IsCall(k) /\ log[k].status = 200 /\ log[k].body = "data"
                     /\ log[k].defect \in {"index", "negative"}) =>
              k = Len(log) /\ EmbedFailed

====
